---- MODULE Spec2Model ----
(***************************************************************************)
(* A model of the WebhookLib documentation viewer (src/script.js).        *)
(*                                                                         *)
(* Strings are sequences of one-character strings, so that slugs, location *)
(* fragments and markdown are computed character by character.  The page   *)
(* holds independent objects (ThemeManager, DocumentationSystem) that      *)
(* share no state; each specification below follows one of them.           *)
(***************************************************************************)
EXTENDS Integers, Sequences, FiniteSets, TLC

VARIABLES
    \* ThemeManager and its environment
    themePc,        \* "unloaded" | "ready": is the ThemeManager constructed
    theme,          \* this.theme
    dataTheme,      \* documentElement's data-theme attribute
    stored,         \* localStorage['webhooklib-theme']
    storageMode,    \* "ok" | "readonly" (setItem throws) | "disabled" (both throw)
    ambientDark,    \* matchMedia('(prefers-color-scheme: dark)').matches
    metaColor,      \* the content of <meta name="theme-color">
    transitionEnabled, \* this.transitionEnabled
    userToggled,    \* has toggle() run since construction (history variable)
    themeOp,        \* the last ThemeManager operation
    themeBeforeToggle, \* this.theme when toggle() was last entered (history variable)
    themeErr,       \* an exception left a ThemeManager handler uncaught
    \* DocumentationSystem and its environment
    pc,             \* "unloaded" | "fetching" | "parsing" | "ready"
    docs,           \* this.docs
    currentSection, \* this.currentSection
    searchIndex,    \* this.searchIndex
    isLoading,      \* this.isLoading
    handlersBound,  \* has bindEvents() run
    nav,            \* the .nav-item elements of #sidebarNav, in document order
    active,         \* the indexes of nav that carry the class "active"
    content,        \* what #docsContent shows
    hist,           \* the session history of the tab: the location.hash of each entry
    hidx,           \* the current entry of hist; location.hash = hist[hidx]
    popPending,     \* the browser has moved to another entry and is about to fire popstate
    fetchOutcome,   \* "none" | "pending" | "ok" | "failed": how loading docs.json ended
    lastOp,         \* the last DocumentationSystem operation
    histBy,         \* for each entry of hist, who wrote it (history variable)
    \* renderMarkdown as a pure function
    mdInput, mdOutput, mdStage1, mdDone,
    \* MobileMenuManager, SidebarManager and their environment
    panel,          \* the fields of both managers, their 300 ms timers, body.style.overflow
    innerWidth,     \* window.innerWidth
    toggleDeb,      \* the timers of the two debounced handleToggle listeners (set together)
    resizeDeb,      \* the timers of the two debounced resize listeners (set together)
    navClose,       \* the pending timers of the navigation click listener (sidebar close)
    evCount,        \* the number of user events so far; an event's arrival number
    panelOp,        \* the last event or timer callback
    \* the search field and the navigation filter
    searchValue,    \* #searchInput.value
    searchDeb,      \* the timer of debouncedSearch; its target is the query it will pass
    navHidden,      \* the indexes of nav whose style.display is 'none'
    groupHidden,    \* the .nav-section elements (by position) whose style.display is 'none'
    emptyState,     \* .search-empty-state: "absent" | "block" | "none"
    inputCount,     \* the number of input events so far; an input's arrival number
    lastInput,      \* the last input event: its value, the time since it in ms, and
                    \* whether it arrived while the timer was pending (history variable)
    searchRun,      \* the last execution of searchDocumentation (history variable)
    \* a copy control of a code block and the clipboard
    copyBtn,        \* the button: textContent, background, pending revert timers, attempts
    clipboardApi,   \* navigator.clipboard && navigator.clipboard.writeText
    copyPending,    \* the number of navigator.clipboard.writeText promises not yet settled
    \* buildSearchIndex, buildNavigation and createSubsectionId as functions
    treeDocs,       \* this.docs
    treeIndex,      \* this.searchIndex
    treeNav,        \* the .nav-item elements of #sidebarNav, in document order
    treeOp,         \* the last call, with this.docs, the index and the entries before it
    slug            \* a title and createSubsectionId of it

themeVars == <<themePc, theme, dataTheme, metaColor, transitionEnabled, stored, storageMode,
               ambientDark, userToggled, themeOp, themeBeforeToggle, themeErr>>
docsVars == <<pc, docs, currentSection, searchIndex, isLoading, handlersBound, nav, active,
              content, hist, hidx, popPending, fetchOutcome, lastOp, histBy>>
mdVars == <<mdInput, mdOutput, mdStage1, mdDone>>
panelVars == <<panel, innerWidth, toggleDeb, resizeDeb, navClose, evCount, panelOp>>
searchVars == <<searchValue, searchDeb, navHidden, groupHidden, emptyState, inputCount,
                lastInput, searchRun>>
copyVars == <<copyBtn, clipboardApi, copyPending>>
treeVars == <<treeDocs, treeIndex, treeNav, treeOp, slug>>
vars == <<themeVars, docsVars, mdVars, panelVars, searchVars, copyVars, treeVars>>

----------------------------------------------------------------------------
(* Bounds *)

MaxHist == 3

----------------------------------------------------------------------------
(* Strings *)

LowerLetters == {"a","b","c","d","e","f","g","h","i","j","k","l","m",
                 "n","o","p","q","r","s","t","u","v","w","x","y","z"}
Digits == {"0","1","2","3","4","5","6","7","8","9"}

\* String.prototype.toLowerCase, one character
LowerChar(c) ==
    CASE c = "A" -> "a" [] c = "B" -> "b" [] c = "C" -> "c" [] c = "D" -> "d"
      [] c = "E" -> "e" [] c = "F" -> "f" [] c = "G" -> "g" [] c = "H" -> "h"
      [] c = "I" -> "i" [] c = "J" -> "j" [] c = "K" -> "k" [] c = "L" -> "l"
      [] c = "M" -> "m" [] c = "N" -> "n" [] c = "O" -> "o" [] c = "P" -> "p"
      [] c = "Q" -> "q" [] c = "R" -> "r" [] c = "S" -> "s" [] c = "T" -> "t"
      [] c = "U" -> "u" [] c = "V" -> "v" [] c = "W" -> "w" [] c = "X" -> "x"
      [] c = "Y" -> "y" [] c = "Z" -> "z" [] OTHER -> c

ToLowerCase(s) == [i \in 1..Len(s) |-> LowerChar(s[i])]

\* a JavaScript string used as a condition
TruthyStr(s) == s # <<>>

\* an optional string argument: null/undefined, or a string
NoSub == [given |-> FALSE, id |-> <<>>]
SomeSub(s) == [given |-> TRUE, id |-> s]
Truthy(o) == o.given /\ TruthyStr(o.id)

----------------------------------------------------------------------------
(* createSubsectionId *)

IsSlugChar(c) == c \in LowerLetters \cup Digits

\* .replace(/[^a-z0-9]+/g, '-'): every maximal run of other characters becomes one hyphen
RECURSIVE CollapseRuns(_, _)
CollapseRuns(s, inRun) ==
    IF s = <<>> THEN <<>>
    ELSE IF IsSlugChar(Head(s)) THEN <<Head(s)>> \o CollapseRuns(Tail(s), FALSE)
    ELSE IF inRun THEN CollapseRuns(Tail(s), TRUE)
    ELSE <<"-">> \o CollapseRuns(Tail(s), TRUE)

\* .replace(/(^-|-$)/g, ''): one hyphen at the start and one at the end are removed
StripEdgeHyphens(s) ==
    LET a == IF s # <<>> /\ Head(s) = "-" THEN Tail(s) ELSE s
    IN IF a # <<>> /\ a[Len(a)] = "-" THEN SubSeq(a, 1, Len(a) - 1) ELSE a

\* createSubsectionId changed: the hyphens at the edges are kept
createSubsectionIdNoStrip(title) == CollapseRuns(ToLowerCase(title), FALSE)

\* createSubsectionId
createSubsectionId(title) == StripEdgeHyphens(CollapseRuns(ToLowerCase(title), FALSE))

----------------------------------------------------------------------------
(* Documents *)

NullDoc == [kind |-> "null", sections |-> <<>>]          \* null (before load, or a body "null")
NoSectionsDoc == [kind |-> "nosections", sections |-> <<>>]  \* an object without "sections"
Doc(secs) == [kind |-> "doc", sections |-> secs]
Section(id, title, text, subs) == [id |-> id, title |-> title, content |-> text, subsections |-> subs]
Subsection(title, text) == [title |-> title, content |-> text]

GettingStarted == <<"g","e","t","t","i","n","g","-","s","t","a","r","t","e","d">>

\* getSampleDocs: ids and titles as in the source; each content is cut after its first words
getSampleDocs ==
    Doc(<<
      Section(GettingStarted,
              <<"G","e","t","t","i","n","g"," ","S","t","a","r","t","e","d">>,
              <<"W","e","l","c","o","m","e">>,
              << Subsection(<<"I","n","s","t","a","l","l","a","t","i","o","n">>, <<"T","o"," ","i","n","s","t","a","l","l">>),
                 Subsection(<<"Q","u","i","c","k"," ","S","t","a","r","t">>, <<"H","e","r","e">>) >>),
      Section(<<"a","p","i">>,
              <<"A","P","I"," ","R","e","f","e","r","e","n","c","e">>,
              <<"C","o","m","p","l","e","t","e">>,
              << Subsection(<<"W","e","b","h","o","o","k"," ","C","l","a","s","s">>, <<"T","h","e"," ","m","a","i","n">>),
                 Subsection(<<"M","e","t","h","o","d","s">>, <<"#","#"," ","S","e","n","d">>) >>),
      Section(<<"e","x","a","m","p","l","e","s">>,
              <<"E","x","a","m","p","l","e","s">>,
              <<"P","r","a","c","t","i","c","a","l">>,
              << Subsection(<<"P","l","a","y","e","r"," ","E","v","e","n","t","s">>, <<"T","r","a","c","k">>),
                 Subsection(<<"E","r","r","o","r"," ","L","o","g","g","i","n","g">>, <<"L","o","g">>) >>)
    >>)

\* a docs.json whose second section id reads like "first section - subsection", and
\* with a subsection title that has no letter or digit
SmallDoc ==
    Doc(<<
      Section(<<"a">>, <<"A">>, <<"x">>,
              << Subsection(<<"B">>, <<"y">>), Subsection(<<"!">>, <<"z">>) >>),
      Section(<<"a","-","b">>, <<"C">>, <<"x">>, <<>>)
    >>)

\* the bodies docs.json may have; "unparsable" is a body response.json() rejects
FetchedDocs == {SmallDoc, NullDoc, NoSectionsDoc}
Bodies == [parsable : {TRUE}, doc : FetchedDocs] \cup {[parsable |-> FALSE, doc |-> NullDoc]}
Responses == {"ok", "notok", "neterr"}

\* the fragments a user may open the page with
UserHashes == { <<>>, <<"#","a">>, <<"#","a","-","b">>, <<"#","z">> }

----------------------------------------------------------------------------
(* Search index and navigation *)

SearchRecord(type, sectionId, id, title, text) ==
    [type |-> type, sectionId |-> sectionId, id |-> id, title |-> title, content |-> text,
     searchText |-> ToLowerCase(title \o <<" ">> \o text)]

RECURSIVE Flatten(_)
Flatten(ss) == IF ss = <<>> THEN <<>> ELSE Head(ss) \o Flatten(Tail(ss))

\* the records of a section changed: a subsection record carries the title as its id
SectionRecordsRawIds(s) ==
    << SearchRecord("section", s.id, s.id, s.title, s.content) >>
    \o [j \in 1..Len(s.subsections) |->
          SearchRecord("subsection", s.id, s.subsections[j].title,
                       s.subsections[j].title, s.subsections[j].content)]

\* the records buildSearchIndex pushes for one section
SectionRecords(s) ==
    << SearchRecord("section", s.id, s.id, s.title, s.content) >>
    \o [j \in 1..Len(s.subsections) |->
          SearchRecord("subsection", s.id, createSubsectionId(s.subsections[j].title),
                       s.subsections[j].title, s.subsections[j].content)]

\* buildSearchIndex changed: the index is not emptied before the records are pushed
buildSearchIndexAppending(d, old) ==
    IF d.kind = "null" THEN [threw |-> FALSE, index |-> old]
    ELSE IF d.kind = "nosections" THEN [threw |-> TRUE, index |-> old]
    ELSE [threw |-> FALSE,
          index |-> old \o Flatten([i \in 1..Len(d.sections) |-> SectionRecords(d.sections[i])])]

\* buildSearchIndex: [threw, index]; old is this.searchIndex before the call
buildSearchIndex(d, old) ==
    IF d.kind = "null" THEN [threw |-> FALSE, index |-> old]
    ELSE IF d.kind = "nosections" THEN [threw |-> TRUE, index |-> <<>>]
    ELSE [threw |-> FALSE,
          index |-> Flatten([i \in 1..Len(d.sections) |-> SectionRecords(d.sections[i])])]

NavItem(section, hasSub, sub, title) ==
    [section |-> section, hasSub |-> hasSub, subsection |-> sub, title |-> title]

SectionNavItems(s) ==
    << NavItem(s.id, FALSE, <<>>, s.title) >>
    \o [j \in 1..Len(s.subsections) |->
          NavItem(s.id, TRUE, createSubsectionId(s.subsections[j].title), s.subsections[j].title)]

\* buildNavigation changed: the entries are added to those #sidebarNav holds
buildNavigationAppending(d, old) ==
    IF d.kind = "null" THEN [threw |-> FALSE, nav |-> old]
    ELSE IF d.kind = "nosections" THEN [threw |-> TRUE, nav |-> old]
    ELSE [threw |-> FALSE,
          nav |-> old \o Flatten([i \in 1..Len(d.sections) |-> SectionNavItems(d.sections[i])])]

\* buildNavigation: [threw, nav]; old is the navigation before the call
buildNavigation(d, old) ==
    IF d.kind = "null" THEN [threw |-> FALSE, nav |-> old]
    ELSE IF d.kind = "nosections" THEN [threw |-> TRUE, nav |-> old]
    ELSE [threw |-> FALSE,
          nav |-> Flatten([i \in 1..Len(d.sections) |-> SectionNavItems(d.sections[i])])]

----------------------------------------------------------------------------
(* Section loader *)

NoContent == [kind |-> "none", id |-> <<>>, target |-> NoSub, msg |-> "none"]
LoadingContent == [kind |-> "loading", id |-> <<>>, target |-> NoSub, msg |-> "none"]

\* showError
showError(message) == [kind |-> "error", id |-> <<>>, target |-> NoSub, msg |-> message]

\* renderSection: the section rendered, and the subsection the view scrolls to
renderSection(section, targetSubsectionId) ==
    [kind |-> "section", id |-> section.id,
     target |-> IF Truthy(targetSubsectionId) THEN targetSubsectionId ELSE NoSub,
     msg |-> "none"]

\* location.hash.slice(1)
LocationFragment(hash) == IF hash = <<>> THEN <<>> ELSE Tail(hash)

\* getCurrentSectionFromURL
getCurrentSectionFromURL(hash) ==
    IF TruthyStr(LocationFragment(hash)) THEN LocationFragment(hash) ELSE GettingStarted

\* history.pushState({}, '', url): the entries after the current one are dropped
pushState(h, i, entry) == [hist |-> SubSeq(h, 1, i) \o <<entry>>, hidx |-> i + 1]

\* the first element a selector matches, as a set of at most one index
FirstOf(S) == IF S = {} THEN {} ELSE {CHOOSE i \in S : \A j \in S : i <= j}

\* updateActiveNavItem: the indexes that are active afterwards
updateActiveNavItem(nv, sectionId, subsectionId) ==
    IF Truthy(subsectionId)
    THEN FirstOf({i \in 1..Len(nv) : nv[i].section = sectionId /\ nv[i].hasSub
                                     /\ nv[i].subsection = subsectionId.id})
    ELSE FirstOf({i \in 1..Len(nv) : nv[i].section = sectionId /\ ~nv[i].hasSub})

FindSection(d, sectionId) == {i \in 1..Len(d.sections) : d.sections[i].id = sectionId}

\* who wrote a history entry: the browser, or loadSection(sec, sub)
ByBrowser == [nav |-> FALSE, sec |-> <<>>, sub |-> NoSub]
ByLoadSection(sectionId, subsectionId) == [nav |-> TRUE, sec |-> sectionId, sub |-> subsectionId]

View == [currentSection |-> currentSection, hist |-> hist, hidx |-> hidx,
         content |-> content, active |-> active, histBy |-> histBy]

\* the fragment-less url loadSection pushes
SectionUrl(sectionId, subsectionId) ==
    IF Truthy(subsectionId)
    THEN <<"#">> \o sectionId \o <<"-">> \o subsectionId.id
    ELSE <<"#">> \o sectionId

\* the state after a successful lookup, with the url given
Loaded(d, nv, v, sectionId, subsectionId, updateURL, url) ==
    LET section == d.sections[CHOOSE i \in FindSection(d, sectionId) :
                                 \A j \in FindSection(d, sectionId) : i <= j]
        pushed == IF updateURL
                  THEN pushState(v.hist, v.hidx, url)
                  ELSE [hist |-> v.hist, hidx |-> v.hidx]
    IN [currentSection |-> sectionId,
        hist |-> pushed.hist, hidx |-> pushed.hidx,
        histBy |-> IF updateURL
                   THEN pushState(v.histBy, v.hidx, ByLoadSection(sectionId, subsectionId)).hist
                   ELSE v.histBy,
        content |-> renderSection(section, subsectionId),
        active |-> updateActiveNavItem(nv, sectionId, subsectionId)]

\* loadSection changed: the section and the location are set before the lookup
loadSectionCommitFirst(d, nv, v, sectionId, subsectionId, updateURL) ==
    IF d.kind # "doc"
    THEN [threw |-> TRUE, found |-> FALSE, v |-> v]
    ELSE IF FindSection(d, sectionId) = {}
    THEN [threw |-> FALSE, found |-> FALSE,
          v |-> [v EXCEPT !.content = showError("Section not found."),
                          !.currentSection = sectionId]]
    ELSE [threw |-> FALSE, found |-> TRUE,
          v |-> Loaded(d, nv, v, sectionId, subsectionId, updateURL,
                       SectionUrl(sectionId, subsectionId))]

\* loadSection changed: the url never names the subsection
loadSectionNoSubUrl(d, nv, v, sectionId, subsectionId, updateURL) ==
    IF d.kind # "doc"
    THEN [threw |-> TRUE, found |-> FALSE, v |-> v]
    ELSE IF FindSection(d, sectionId) = {}
    THEN [threw |-> FALSE, found |-> FALSE, v |-> [v EXCEPT !.content = showError("Section not found.")]]
    ELSE [threw |-> FALSE, found |-> TRUE,
          v |-> Loaded(d, nv, v, sectionId, subsectionId, updateURL, <<"#">> \o sectionId)]

\* loadSection on the document d and navigation nv, from the state v:
\* this.docs.sections throws on a document without sections
loadSection(d, nv, v, sectionId, subsectionId, updateURL) ==
    IF d.kind # "doc"
    THEN [threw |-> TRUE, found |-> FALSE, v |-> v]
    ELSE IF FindSection(d, sectionId) = {}
    THEN [threw |-> FALSE, found |-> FALSE, v |-> [v EXCEPT !.content = showError("Section not found.")]]
    ELSE [threw |-> FALSE, found |-> TRUE,
          v |-> Loaded(d, nv, v, sectionId, subsectionId, updateURL,
                       SectionUrl(sectionId, subsectionId))]

\* the last operation: which handler ran, the arguments it gave loadSection, the outcome,
\* and, when it read the location, who wrote the entry it read
Op(op, sec, sub, upd, r, by) ==
    [op |-> op, sec |-> sec, sub |-> sub, upd |-> upd, found |-> r.found, threw |-> r.threw,
     by |-> by]
NoOp == [op |-> "none", sec |-> <<>>, sub |-> NoSub, upd |-> FALSE, found |-> FALSE,
         threw |-> FALSE, by |-> ByBrowser]

SetView(v) ==
    /\ currentSection' = v.currentSection
    /\ hist' = v.hist
    /\ hidx' = v.hidx
    /\ content' = v.content
    /\ active' = v.active
    /\ histBy' = v.histBy

\* loadDocs changed: a failed fetch leaves the document unset
loadDocsNoFallback(response, body) ==
    IF response = "ok" /\ body.parsable THEN body.doc ELSE NullDoc

\* loadDocs: the document init continues with
loadDocs(response, body) ==
    IF response = "ok" /\ body.parsable THEN body.doc ELSE getSampleDocs

\* init after "await this.loadDocs()": build, bind, load the section of the fragment;
\* whatever throws is caught and shown, and the finally block ends the loading state
InitAfterLoad(d) ==
    LET idx == buildSearchIndex(d, searchIndex)
        nv == IF idx.threw THEN [threw |-> TRUE, nav |-> nav] ELSE buildNavigation(d, nav)
        bound == ~idx.threw /\ ~nv.threw
        v0 == [View EXCEPT !.active = {}]
        sec == getCurrentSectionFromURL(hist[hidx])
        r == IF bound THEN loadSection(d, nv.nav, v0, sec, NoSub, TRUE)
             ELSE [threw |-> TRUE, found |-> FALSE, v |-> v0]
        failed == showError("Failed to load documentation. Please refresh the page.")
    IN /\ docs' = d
       /\ searchIndex' = idx.index
       /\ nav' = nv.nav
       /\ handlersBound' = bound
       /\ SetView(IF r.threw THEN [r.v EXCEPT !.content = failed] ELSE r.v)
       /\ isLoading' = FALSE
       /\ pc' = "ready"
       /\ popPending' = FALSE
       /\ lastOp' = Op("init", sec, NoSub, TRUE, r, histBy[hidx])

\* DOMContentLoaded: new DocumentationSystem(), up to the first await of init
DocsConstruct ==
    /\ pc = "unloaded"
    /\ pc' = "fetching"
    /\ docs' = NullDoc
    /\ currentSection' = GettingStarted
    /\ searchIndex' = <<>>
    /\ isLoading' = TRUE
    /\ content' = LoadingContent
    /\ fetchOutcome' = "pending"
    /\ UNCHANGED <<handlersBound, nav, active, hist, hidx, popPending, lastOp, histBy>>

\* fetch('docs.json') is rejected, or answers with a status that is not ok
FetchFails(response) ==
    /\ pc = "fetching"
    /\ response # "ok"
    /\ fetchOutcome' = "failed"
    /\ InitAfterLoad(loadDocs(response, [parsable |-> FALSE, doc |-> NullDoc]))

\* fetch('docs.json') answers ok: init awaits response.json()
FetchAnswers ==
    /\ pc = "fetching"
    /\ pc' = "parsing"
    /\ UNCHANGED <<docs, currentSection, searchIndex, isLoading, handlersBound, nav,
                   active, content, hist, hidx, popPending, fetchOutcome, lastOp, histBy>>

\* response.json() settles
BodySettles(body) ==
    /\ pc = "parsing"
    /\ fetchOutcome' = IF body.parsable THEN "ok" ELSE "failed"
    /\ InitAfterLoad(loadDocs("ok", body))

\* a click listener that loads the section and then drops the first section of
\* this.docs (what the listener must not do)
NavClickDroppingSection(i) ==
    /\ pc = "ready" /\ handlersBound /\ ~popPending
    /\ i \in 1..Len(nav)
    /\ hidx < MaxHist
    /\ LET section == nav[i].section
           subsection == IF nav[i].hasSub THEN SomeSub(nav[i].subsection) ELSE NoSub
           r == loadSection(docs, nav, View, section, subsection, TRUE)
       IN /\ TruthyStr(section)
          /\ SetView(r.v)
          /\ lastOp' = Op("click", section, subsection, TRUE, r, ByBrowser)
    /\ docs' = [docs EXCEPT !.sections = IF @ = <<>> THEN @ ELSE Tail(@)]
    /\ UNCHANGED <<pc, searchIndex, isLoading, handlersBound, nav, popPending, fetchOutcome>>

\* the click listener of bindEvents, on the navigation entry i
NavClick(i) ==
    /\ pc = "ready" /\ handlersBound /\ ~popPending
    /\ i \in 1..Len(nav)
    /\ hidx < MaxHist
    /\ LET section == nav[i].section
           subsection == IF nav[i].hasSub THEN SomeSub(nav[i].subsection) ELSE NoSub
           r == loadSection(docs, nav, View, section, subsection, TRUE)
       IN /\ TruthyStr(section)
          /\ SetView(r.v)
          /\ lastOp' = Op("click", section, subsection, TRUE, r, ByBrowser)
    /\ UNCHANGED <<pc, docs, searchIndex, isLoading, handlersBound, nav, popPending, fetchOutcome>>

\* the user goes back or forward in the session history; the browser moves to the
\* entry and, when a listener is bound, fires popstate before anything else runs
BrowserTraverse(delta) ==
    /\ pc # "unloaded"
    /\ hidx + delta \in 1..Len(hist)
    /\ ~popPending
    /\ hidx' = hidx + delta
    /\ popPending' = handlersBound
    /\ UNCHANGED <<pc, docs, currentSection, searchIndex, isLoading, handlersBound, nav,
                   active, content, hist, fetchOutcome, lastOp, histBy>>

\* a popstate listener that lets loadSection write the location
PopStateUpdatingLocation ==
    /\ pc = "ready" /\ handlersBound
    /\ popPending
    /\ popPending' = FALSE
    /\ LET section == getCurrentSectionFromURL(hist[hidx])
           r == loadSection(docs, nav, View, section, NoSub, TRUE)
       IN /\ SetView(r.v)
          /\ lastOp' = Op("popstate", section, NoSub, TRUE, r, histBy[hidx])
    /\ UNCHANGED <<pc, docs, searchIndex, isLoading, handlersBound, nav, fetchOutcome>>

\* the popstate listener of bindEvents
PopState ==
    /\ pc = "ready" /\ handlersBound
    /\ popPending
    /\ popPending' = FALSE
    /\ LET section == getCurrentSectionFromURL(hist[hidx])
           r == loadSection(docs, nav, View, section, NoSub, FALSE)
       IN /\ SetView(r.v)
          /\ lastOp' = Op("popstate", section, NoSub, FALSE, r, histBy[hidx])
    /\ UNCHANGED <<pc, docs, searchIndex, isLoading, handlersBound, nav, fetchOutcome>>

\* a script calls window.docsSystem.loadSection directly
ApiSections == { <<"a">>, <<"z">> }
ApiSubs == { NoSub, SomeSub(<<"b">>), SomeSub(<<"q">>) }
ApiLoadSection(sectionId, subsectionId, updateURL) ==
    /\ pc = "ready" /\ ~popPending
    /\ hidx < MaxHist
    /\ LET r == loadSection(docs, nav, View, sectionId, subsectionId, updateURL)
       IN /\ SetView(r.v)
          /\ lastOp' = Op("api", sectionId, subsectionId, updateURL, r, ByBrowser)
    /\ UNCHANGED <<pc, docs, searchIndex, isLoading, handlersBound, nav, popPending, fetchOutcome>>

DocsInit ==
    /\ pc = "unloaded"
    /\ docs = NullDoc
    /\ currentSection = GettingStarted
    /\ searchIndex = <<>>
    /\ isLoading = FALSE
    /\ handlersBound = FALSE
    /\ nav = <<>>
    /\ active = {}
    /\ content = NoContent
    /\ \E h \in UserHashes : hist = << h >>
    /\ hidx = 1
    /\ popPending = FALSE
    /\ fetchOutcome = "none"
    /\ lastOp = NoOp
    /\ histBy = << ByBrowser >>

DocsIdle ==
    /\ pc = "unloaded"
    /\ docs = NullDoc
    /\ currentSection = GettingStarted
    /\ searchIndex = <<>>
    /\ isLoading = FALSE
    /\ handlersBound = FALSE
    /\ nav = <<>>
    /\ active = {}
    /\ content = NoContent
    /\ hist = << <<>> >>
    /\ hidx = 1
    /\ popPending = FALSE
    /\ fetchOutcome = "none"
    /\ lastOp = NoOp
    /\ histBy = << ByBrowser >>

DocsNext ==
    \/ DocsConstruct
    \/ \E response \in Responses : FetchFails(response)
    \/ FetchAnswers
    \/ \E body \in Bodies : BodySettles(body)
    \/ \E i \in 1..Len(nav) : NavClick(i)
    \/ \E delta \in {-1, 1} : BrowserTraverse(delta)
    \/ PopState

----------------------------------------------------------------------------
(* Theme manager *)

\* localStorage.getItem('webhooklib-theme')
getItem(mode, st) == [threw |-> mode = "disabled", value |-> st]

\* localStorage.setItem('webhooklib-theme', t)
setItem(mode, st, t) == [threw |-> mode # "ok", st |-> IF mode = "ok" THEN t ELSE st]

\* getStoredTheme: "null" when nothing is stored or the read throws
getStoredTheme(mode, st) == IF getItem(mode, st).threw THEN "null" ELSE getItem(mode, st).value

\* getSystemTheme, and the e.matches of a change event
getSystemTheme(dark) == IF dark THEN "dark" ELSE "light"

\* storeTheme changed: the value is not written
storeThemeNothing(mode, st, t) == [threw |-> FALSE, st |-> st]

\* storeTheme changed: no try around setItem, as in src/unnamed/part_000
storeThemeUncaught(mode, st, t) == setItem(mode, st, t)

\* storeTheme: the store afterwards; a write that throws is caught
storeTheme(mode, st, t) == [threw |-> FALSE, st |-> setItem(mode, st, t).st]

\* toggle's this.theme === 'dark' ? 'light' : 'dark'
toggledTheme(t) == IF t = "dark" THEN "light" ELSE "dark"

\* applyTheme: the data-theme attribute and the theme-color meta
applyTheme(t) ==
    /\ dataTheme' = t
    /\ metaColor' = IF t = "dark" THEN "#1a1a2e" ELSE "#ffffff"

\* the constructor changed: the stored preference is not read
initialThemeIgnoresStore(mode, st, dark) == getSystemTheme(dark)

\* the constructor's this.theme
initialTheme(mode, st, dark) ==
    IF getStoredTheme(mode, st) # "null" THEN getStoredTheme(mode, st) ELSE getSystemTheme(dark)

\* the change listener changed: the signal is read the wrong way round
systemThemeInverted(matches) == IF matches THEN "light" ELSE "dark"

\* the change listener's e.matches ? 'dark' : 'light'
systemThemeOfEvent(matches) == IF matches THEN "dark" ELSE "light"

\* DOMContentLoaded: new ThemeManager()
ThemeConstruct ==
    /\ themePc = "unloaded"
    /\ themePc' = "ready"
    /\ theme' = initialTheme(storageMode, stored, ambientDark)
    /\ transitionEnabled' = FALSE
    /\ applyTheme(theme')
    /\ userToggled' = FALSE
    /\ themeOp' = "construct"
    /\ themeErr' = FALSE
    /\ UNCHANGED <<stored, storageMode, ambientDark, themeBeforeToggle>>

\* the 100 ms timer of init
ThemeTransitionTimer ==
    /\ themePc = "ready"
    /\ ~transitionEnabled
    /\ transitionEnabled' = TRUE
    /\ UNCHANGED <<themePc, theme, dataTheme, metaColor, stored, storageMode, ambientDark,
                   userToggled, themeOp, themeBeforeToggle, themeErr>>

\* a click or touchend on .theme-toggle: toggle()
ThemeToggle ==
    /\ themePc = "ready"
    /\ theme' = toggledTheme(theme)
    /\ applyTheme(theme')
    /\ stored' = storeTheme(storageMode, stored, theme').st
    /\ themeErr' = (themeErr \/ storeTheme(storageMode, stored, theme').threw)
    /\ userToggled' = TRUE
    /\ themeOp' = "toggle"
    /\ themeBeforeToggle' = theme
    /\ UNCHANGED <<themePc, transitionEnabled, storageMode, ambientDark>>

\* the ambient color scheme changes; the change listener runs when it is bound
AmbientChange ==
    /\ ambientDark' = ~ambientDark
    /\ IF themePc = "ready" /\ getStoredTheme(storageMode, stored) = "null"
       THEN /\ theme' = systemThemeOfEvent(ambientDark')
            /\ applyTheme(theme')
       ELSE UNCHANGED <<theme, dataTheme, metaColor>>
    /\ themeOp' = IF themePc = "ready" THEN "ambient" ELSE themeOp
    /\ UNCHANGED <<themePc, transitionEnabled, stored, storageMode, userToggled,
                   themeBeforeToggle, themeErr>>

\* the user reloads the page: the store stays, the script starts again
ThemeReload ==
    /\ themePc = "ready"
    /\ themePc' = "unloaded"
    /\ theme' = "light"
    /\ dataTheme' = "none"
    /\ metaColor' = "none"
    /\ transitionEnabled' = FALSE
    /\ userToggled' = FALSE
    /\ themeOp' = "none"
    /\ themeBeforeToggle' = "none"
    /\ themeErr' = FALSE
    /\ UNCHANGED <<stored, storageMode, ambientDark>>

ThemeInit ==
    /\ themePc = "unloaded"
    /\ theme = "light"
    /\ dataTheme = "none"
    /\ metaColor = "none"
    /\ transitionEnabled = FALSE
    /\ storageMode \in {"ok", "readonly", "disabled"}
    /\ stored \in {"null", "light", "dark"}
    /\ ambientDark \in BOOLEAN
    /\ userToggled = FALSE
    /\ themeOp = "none"
    /\ themeBeforeToggle = "none"
    /\ themeErr = FALSE

ThemeIdle ==
    /\ themePc = "unloaded"
    /\ theme = "light"
    /\ dataTheme = "none"
    /\ metaColor = "none"
    /\ transitionEnabled = FALSE
    /\ stored = "null"
    /\ storageMode = "ok"
    /\ ambientDark = FALSE
    /\ userToggled = FALSE
    /\ themeOp = "none"
    /\ themeBeforeToggle = "none"
    /\ themeErr = FALSE

ThemeNext ==
    \/ ThemeConstruct
    \/ ThemeTransitionTimer
    \/ ThemeToggle
    \/ AmbientChange
    \/ ThemeReload

MdIdle ==
    /\ mdInput = <<>>
    /\ mdOutput = <<>>
    /\ mdStage1 = <<>>
    /\ mdDone = FALSE

----------------------------------------------------------------------------
(* Markdown renderer *)

(* A rendered string is a sequence of tokens: a character of the input (a string of  *)
(* one character), or a piece of markup the renderer emitted (a longer string).  The *)
(* inputs are drawn from MdPieces, whose characters cannot spell a piece of markup   *)
(* or the languages lua, js and javascript, so that nothing is lost by keeping the   *)
(* emitted markup whole; highlightCode then returns the escaped code.                *)

MaxPieces == 4

\* the grave accent, which a string of the module cannot hold, is written by name
Backtick == "grave"
Fence == <<Backtick, Backtick, Backtick>>
MdPieces == { Fence, <<"\n">>, <<Backtick>>, <<"*">>, <<"<">>, <<"a">>, <<"#", " ">>, <<"-", " ">> }

RECURSIVE PiecesUpTo(_)
PiecesUpTo(n) ==
    IF n = 0 THEN { <<>> }
    ELSE PiecesUpTo(n - 1) \cup { p \o q : p \in MdPieces, q \in PiecesUpTo(n - 1) }
MdInputs == PiecesUpTo(MaxPieces)

Indent16 == "                "
Indent20 == "                    "
Indent24 == "                        "
Indent28 == "                            "

\* \s
IsSpace(t) == t \in {" ", "\n", "\t", Indent16, Indent20, Indent24, Indent28}
\* \w
IsWordChar(t) == \/ t \in LowerLetters \cup Digits \cup {"_"}
                 \/ LowerChar(t) # t
\* \d
IsDigit(t) == t \in Digits

\* the emitted tokens that begin with "<"
Tags == { "<div class=\"code-block\" data-language=\"", "<div class=\"code-header\">",
          "<span class=\"code-lang\">", "</span>", "</div>", "<pre><code class=\"language-",
          "</code></pre>", "<code class=\"inline-code\">", "</code>", "<strong>", "</strong>",
          "<em>", "</em>", "<h4>", "</h4>", "<h3>", "</h3>", "<h2>", "</h2>",
          "<a href=\"", "</a>", "<li>", "</li>", "<ul>", "</ul>", "<ol>", "</ol>",
          "<blockquote>", "</blockquote>", "<hr>", "</p><p>", "<br>", "<p>", "</p>" }

\* the first index of t in s at or after k, or 0
RECURSIVE NextIndexOf(_, _, _)
NextIndexOf(s, k, t) ==
    IF k > Len(s) THEN 0
    ELSE IF s[k] = t THEN k
    ELSE NextIndexOf(s, k + 1, t)

\* the last index of t in s, or 0
RECURSIVE LastIndexOf(_, _, _)
LastIndexOf(s, k, t) ==
    IF k < 1 THEN 0
    ELSE IF s[k] = t THEN k
    ELSE LastIndexOf(s, k - 1, t)

IsFenceAt(s, i) == i + 2 <= Len(s) /\ s[i] = Backtick /\ s[i + 1] = Backtick /\ s[i + 2] = Backtick

\* the first index at or after k where a fence starts, or 0
RECURSIVE NextFence(_, _)
NextFence(s, k) ==
    IF k > Len(s) THEN 0
    ELSE IF IsFenceAt(s, k) THEN k
    ELSE NextFence(s, k + 1)

\* the end of the run of word characters that starts at k (k - 1 when there is none)
RECURSIVE WordRunEnd(_, _)
WordRunEnd(s, k) ==
    IF k <= Len(s) /\ IsWordChar(s[k]) THEN WordRunEnd(s, k + 1) ELSE k - 1

\* String.prototype.trim
RECURSIVE TrimStart(_)
TrimStart(s) == IF s # <<>> /\ IsSpace(Head(s)) THEN TrimStart(Tail(s)) ELSE s
RECURSIVE TrimEnd(_)
TrimEnd(s) ==
    IF s # <<>> /\ IsSpace(s[Len(s)]) THEN TrimEnd(SubSeq(s, 1, Len(s) - 1)) ELSE s
Trim(s) == TrimEnd(TrimStart(s))

\* escapeHtml of highlightCode: textContent read back as innerHTML
escapeChar(c) ==
    IF c = "&" THEN "&amp;" ELSE IF c = "<" THEN "&lt;" ELSE IF c = ">" THEN "&gt;" ELSE c
escapeHtml(text) == [i \in 1..Len(text) |-> escapeChar(text[i])]

\* highlightCode, for a language other than lua, js and javascript
highlightCode(code, language) == escapeHtml(code)

\* the template literal that the code-block callback returns
CodeBlock(lang, code) ==
    LET language == IF lang = <<>> THEN <<"text">> ELSE lang
    IN <<"\n", Indent20, "<div class=\"code-block\" data-language=\"">> \o language \o <<"\">",
         "\n", Indent24, "<div class=\"code-header\">",
         "\n", Indent28, "<span class=\"code-lang\">">> \o language \o <<"</span>",
         "\n", Indent24, "</div>",
         "\n", Indent24, "<pre><code class=\"language-">> \o language \o <<"\">">>
         \o highlightCode(Trim(code), language)
         \o <<"</code></pre>", "\n", Indent20, "</div>", "\n", Indent16>>

\* /```(\w+)?\n([\s\S]*?)```/ matched at i: [ok, lang, code, next]
FenceMatch(s, i) ==
    LET e == WordRunEnd(s, i + 3)
        f == NextFence(s, e + 2)
    IN IF IsFenceAt(s, i) /\ e + 1 <= Len(s) /\ s[e + 1] = "\n" /\ f # 0
       THEN [ok |-> TRUE, lang |-> SubSeq(s, i + 3, e), code |-> SubSeq(s, e + 2, f - 1),
             next |-> f + 3]
       ELSE [ok |-> FALSE, lang |-> <<>>, code |-> <<>>, next |-> i + 1]

\* stage 1: fenced code blocks
RECURSIVE FencedCode(_, _)
FencedCode(s, i) ==
    IF i > Len(s) THEN <<>>
    ELSE IF FenceMatch(s, i).ok
    THEN CodeBlock(FenceMatch(s, i).lang, FenceMatch(s, i).code) \o FencedCode(s, FenceMatch(s, i).next)
    ELSE <<s[i]>> \o FencedCode(s, i + 1)

\* the markup stage 1 emits, one element for each fenced code block
RECURSIVE CodeBlocksOf(_, _)
CodeBlocksOf(s, i) ==
    IF i > Len(s) THEN <<>>
    ELSE IF FenceMatch(s, i).ok
    THEN << CodeBlock(FenceMatch(s, i).lang, FenceMatch(s, i).code) >> \o CodeBlocksOf(s, FenceMatch(s, i).next)
    ELSE CodeBlocksOf(s, i + 1)

\* stage 2: /`([^`]+)`/g
RECURSIVE InlineCode(_, _)
InlineCode(s, i) ==
    IF i > Len(s) THEN <<>>
    ELSE LET j == NextIndexOf(s, i + 1, Backtick)
         IN IF s[i] = Backtick /\ j > i + 1
            THEN <<"<code class=\"inline-code\">">> \o SubSeq(s, i + 1, j - 1) \o <<"</code>">>
                 \o InlineCode(s, j + 1)
            ELSE <<s[i]>> \o InlineCode(s, i + 1)

\* stage 3: /\*\*([^*]+)\*\*/g
RECURSIVE Bold(_, _)
Bold(s, i) ==
    IF i > Len(s) THEN <<>>
    ELSE LET j == NextIndexOf(s, i + 2, "*")
         IN IF /\ i + 1 <= Len(s) /\ s[i] = "*" /\ s[i + 1] = "*"
               /\ j > i + 2 /\ j + 1 <= Len(s) /\ s[j + 1] = "*"
            THEN <<"<strong>">> \o SubSeq(s, i + 2, j - 1) \o <<"</strong>">> \o Bold(s, j + 2)
            ELSE <<s[i]>> \o Bold(s, i + 1)

\* stage 4: /\*([^*]+)\*/g
RECURSIVE Italic(_, _)
Italic(s, i) ==
    IF i > Len(s) THEN <<>>
    ELSE LET j == NextIndexOf(s, i + 1, "*")
         IN IF s[i] = "*" /\ j > i + 1
            THEN <<"<em>">> \o SubSeq(s, i + 1, j - 1) \o <<"</em>">> \o Italic(s, j + 1)
            ELSE <<s[i]>> \o Italic(s, i + 1)

\* the lines of s, which "\n" separates, and back
RECURSIVE SplitLines(_)
SplitLines(s) ==
    LET n == NextIndexOf(s, 1, "\n")
    IN IF n = 0 THEN << s >>
       ELSE << SubSeq(s, 1, n - 1) >> \o SplitLines(SubSeq(s, n + 1, Len(s)))
RECURSIVE JoinLines(_)
JoinLines(ls) ==
    IF Len(ls) = 1 THEN ls[1] ELSE ls[1] \o <<"\n">> \o JoinLines(Tail(ls))

HasPrefix(line, prefix) ==
    Len(line) >= Len(prefix) /\ SubSeq(line, 1, Len(prefix)) = prefix

\* /^prefix(.+)$/gm: a line that starts with prefix and goes on is put between open and close
WrapLines(s, prefix, open, close) ==
    LET ls == SplitLines(s)
    IN JoinLines([k \in 1..Len(ls) |->
                    IF HasPrefix(ls[k], prefix) /\ Len(ls[k]) > Len(prefix)
                    THEN <<open>> \o SubSeq(ls[k], Len(prefix) + 1, Len(ls[k])) \o <<close>>
                    ELSE ls[k]])

\* the end of the run of digits that starts at k (k - 1 when there is none)
RECURSIVE DigitRunEnd(_, _)
DigitRunEnd(s, k) ==
    IF k <= Len(s) /\ IsDigit(s[k]) THEN DigitRunEnd(s, k + 1) ELSE k - 1

\* stage 11: /^\d+\. (.+)$/gm
OrderedItems(s) ==
    LET ls == SplitLines(s)
        Item(line) ==
            LET e == DigitRunEnd(line, 1)
            IN IF e >= 1 /\ Len(line) >= e + 3 /\ line[e + 1] = "." /\ line[e + 2] = " "
               THEN <<"<li>">> \o SubSeq(line, e + 3, Len(line)) \o <<"</li>">>
               ELSE line
    IN JoinLines([k \in 1..Len(ls) |-> Item(ls[k])])

\* the end of the run of white space that starts at k (k - 1 when there is none)
RECURSIVE SpaceRunEnd(_, _)
SpaceRunEnd(s, k) ==
    IF k <= Len(s) /\ IsSpace(s[k]) THEN SpaceRunEnd(s, k + 1) ELSE k - 1

\* /(<li>.*<\/li>\s*)+/gs: with the s flag the match runs from the first <li> to the
\* last </li> and the white space after it: [ok, from, to]
ListMatch(s) ==
    LET a == NextIndexOf(s, 1, "<li>")
        b == LastIndexOf(s, Len(s), "</li>")
    IN IF a # 0 /\ b > a
       THEN [ok |-> TRUE, from |-> a, to |-> SpaceRunEnd(s, b + 1)]
       ELSE [ok |-> FALSE, from |-> 0, to |-> 0]

\* stage 10: the match is put in <ul>.  (The replacement text at script.js 1034-1037
\* is garbled; it is read as '<ul>$&</ul>', the wrapping that src/unnamed/part_000
\* line 408 has.)
UnorderedList(s) ==
    LET m == ListMatch(s)
    IN IF m.ok
       THEN SubSeq(s, 1, m.from - 1) \o <<"<ul>">> \o SubSeq(s, m.from, m.to) \o <<"</ul>">>
            \o SubSeq(s, m.to + 1, Len(s))
       ELSE s

\* stage 12: the match is put in <ol> unless it includes '<ul>'
OrderedList(s) ==
    LET m == ListMatch(s)
    IN IF m.ok /\ \A k \in m.from..m.to : s[k] # "<ul>"
       THEN SubSeq(s, 1, m.from - 1) \o <<"<ol>">> \o SubSeq(s, m.from, m.to) \o <<"</ol>">>
            \o SubSeq(s, m.to + 1, Len(s))
       ELSE s

\* stage 14: /^---$/gm
Rules(s) ==
    LET ls == SplitLines(s)
    IN JoinLines([k \in 1..Len(ls) |-> IF ls[k] = <<"-", "-", "-">> THEN <<"<hr>">> ELSE ls[k]])

\* stage 15: /\n\n/g
RECURSIVE Paragraphs(_, _)
Paragraphs(s, i) ==
    IF i > Len(s) THEN <<>>
    ELSE IF i + 1 <= Len(s) /\ s[i] = "\n" /\ s[i + 1] = "\n"
    THEN <<"</p><p>">> \o Paragraphs(s, i + 2)
    ELSE <<s[i]>> \o Paragraphs(s, i + 1)

\* stage 16: /\n/g
LineBreaks(s) == [k \in 1..Len(s) |-> IF s[k] = "\n" THEN "<br>" ELSE s[k]]

\* /\[([^\]]+)\]\(([^)]+)\)/g
RECURSIVE Links(_, _)
Links(s, i) ==
    IF i > Len(s) THEN <<>>
    ELSE LET j == NextIndexOf(s, i + 1, "]")
             k == IF j = 0 THEN 0 ELSE NextIndexOf(s, j + 2, ")")
         IN IF /\ s[i] = "[" /\ j > i + 1 /\ j + 1 <= Len(s) /\ s[j + 1] = "(" /\ k > j + 2
            THEN <<"<a href=\"">> \o SubSeq(s, j + 2, k - 1)
                 \o <<"\" target=\"_blank\" rel=\"noopener noreferrer\">">>
                 \o SubSeq(s, i + 1, j - 1) \o <<"</a>">> \o Links(s, k + 1)
            ELSE <<s[i]>> \o Links(s, i + 1)

\* html.startsWith('<')
StartsWithLt(html) == html # <<>> /\ (html[1] = "<" \/ html[1] \in Tags)

\* the stages of renderMarkdown after the fenced code blocks
LaterStages(s1) ==
    LET s2 == InlineCode(s1, 1)
        s3 == Bold(s2, 1)
        s4 == Italic(s3, 1)
        s5 == WrapLines(s4, <<"#", "#", "#", " ">>, "<h4>", "</h4>")
        s6 == WrapLines(s5, <<"#", "#", " ">>, "<h3>", "</h3>")
        s7 == WrapLines(s6, <<"#", " ">>, "<h2>", "</h2>")
        s8 == Links(s7, 1)
        s9 == WrapLines(s8, <<"-", " ">>, "<li>", "</li>")
        s10 == UnorderedList(s9)
        s11 == OrderedItems(s10)
        s12 == OrderedList(s11)
        s13 == WrapLines(s12, <<">", " ">>, "<blockquote>", "</blockquote>")
        s14 == Rules(s13)
        s15 == Paragraphs(s14, 1)
    IN LineBreaks(s15)

\* renderMarkdown
renderMarkdown(text) ==
    IF text = <<>> THEN <<>>
    ELSE LET html == LaterStages(FencedCode(text, 1))
         IN IF ~StartsWithLt(html) THEN <<"<p>">> \o html \o <<"</p>">> ELSE html

\* renderMarkdown is applied to the input
MdRender ==
    /\ ~mdDone
    /\ mdDone' = TRUE
    /\ mdStage1' = FencedCode(mdInput, 1)
    /\ mdOutput' = renderMarkdown(mdInput)
    /\ UNCHANGED mdInput

MdInit ==
    /\ mdInput \in MdInputs
    /\ mdOutput = <<>>
    /\ mdStage1 = <<>>
    /\ mdDone = FALSE

----------------------------------------------------------------------------
(* Mobile menu and sidebar *)

(* Time passes in steps of TimeStep milliseconds; a timer whose time is up runs     *)
(* before time passes again, and timers whose time is up in the same step run in    *)
(* any order.  The elements #mobileNav, #mobileMenuToggle, #sidebar and            *)
(* #sidebarOverlay are taken to exist, and #mobileMenuToggle and                   *)
(* #mobileSidebarToggle to lie outside .mobile-nav-content.                        *)

MaxEvents == 3
TimeStep == 50

ToggleDebounceMs == 100
ResizeDebounceMs == 250
AnimationMs == 300
NavCloseMs == 100
Breakpoint == 768

Widths == {Breakpoint, Breakpoint + 1}

\* MobileUtils.isMobile
isMobile(w) == w <= Breakpoint

\* what a click or a touch can hit
Targets == {"mobileMenuToggle", "mobileSidebarToggle", "mobileNavLink", "mobileNavContent",
            "sidebarOverlay", "navItem", "elsewhere"}
\* what a touch that is no click (the end of a swipe) hits, as handleToggle sees it
TouchTargets == {"mobileMenuToggle", "mobileSidebarToggle", "elsewhere"}
\* e.target.closest('.mobile-nav-content')
InMobileNavContent(target) == target \in {"mobileNavLink", "mobileNavContent"}

NoTimer == [set |-> FALSE, left |-> 0, target |-> "none", seq |-> 0]
Timer(ms, target, seq) == [set |-> TRUE, left |-> ms, target |-> target, seq |-> seq]
Due(t) == t.set /\ t.left <= 0

\* MobileMenuManager.toggle changed: no isAnimating guard, as in src/unnamed/part_000
menuToggleUnguarded(p, seq) ==
    [p EXCEPT !.menuIsAnimating = TRUE, !.menuAnimLeft = AnimationMs,
              !.menuIsOpen = ~p.menuIsOpen,
              !.overflow = IF ~p.menuIsOpen THEN "hidden" ELSE "",
              !.menuBlocked = FALSE, !.mutSeq = seq]

\* MobileMenuManager.toggle, called for the user event number seq
menuToggle(p, seq) ==
    IF p.menuIsAnimating THEN [p EXCEPT !.menuBlocked = TRUE]
    ELSE [p EXCEPT !.menuIsAnimating = TRUE, !.menuAnimLeft = AnimationMs,
                   !.menuIsOpen = ~p.menuIsOpen,
                   !.overflow = IF ~p.menuIsOpen THEN "hidden" ELSE "",
                   !.menuBlocked = FALSE, !.mutSeq = seq]

\* MobileMenuManager.close
menuClose(p, seq) ==
    IF ~p.menuIsOpen \/ p.menuIsAnimating THEN p ELSE menuToggle(p, seq)

\* SidebarManager.toggle
sidebarToggle(p, seq) ==
    IF p.sidebarIsAnimating THEN [p EXCEPT !.sidebarBlocked = TRUE]
    ELSE [p EXCEPT !.sidebarIsAnimating = TRUE, !.sidebarAnimLeft = AnimationMs,
                   !.sidebarIsOpen = ~p.sidebarIsOpen,
                   !.overflow = IF ~p.sidebarIsOpen THEN "hidden" ELSE "",
                   !.sidebarBlocked = FALSE, !.mutSeq = seq]

\* SidebarManager.open and close
sidebarOpen(p, seq) == IF ~p.sidebarIsOpen THEN sidebarToggle(p, seq) ELSE p
sidebarClose(p, seq) == IF p.sidebarIsOpen THEN sidebarToggle(p, seq) ELSE p

\* a user event arrives
Arrives(op) ==
    /\ evCount < MaxEvents
    /\ evCount' = evCount + 1
    /\ panelOp' = op

\* a click: the close listeners of both managers run at once, the debounced
\* handleToggle listeners and the navigation listener set their timers
PanelClick(target) ==
    /\ Arrives("click")
    /\ LET seq == evCount + 1
           p1 == IF target = "mobileNavLink"
                    \/ (panel.menuIsOpen /\ ~InMobileNavContent(target))
                 THEN menuClose(panel, seq) ELSE panel
           p2 == IF target = "sidebarOverlay" \/ (target = "navItem" /\ isMobile(innerWidth))
                 THEN sidebarClose(p1, seq) ELSE p1
       IN /\ panel' = p2
          /\ toggleDeb' = Timer(ToggleDebounceMs, target, seq)
          /\ navClose' = IF target = "navItem" /\ isMobile(innerWidth)
                         THEN navClose \cup {Timer(NavCloseMs, target, seq)}
                         ELSE navClose
    /\ UNCHANGED <<innerWidth, resizeDeb>>

\* a touchend: the debounced handleToggle listeners set their timers again
PanelTouchEnd(target) ==
    /\ Arrives("touchend")
    /\ toggleDeb' = Timer(ToggleDebounceMs, target, evCount + 1)
    /\ UNCHANGED <<panel, innerWidth, resizeDeb, navClose>>

\* the timers of the debounced handleToggle listeners run
ToggleDebFires ==
    /\ Due(toggleDeb)
    /\ toggleDeb' = NoTimer
    /\ LET p1 == IF toggleDeb.target = "mobileMenuToggle"
                 THEN menuToggle(panel, toggleDeb.seq) ELSE panel
       IN panel' = IF toggleDeb.target = "mobileSidebarToggle"
                   THEN sidebarToggle(p1, toggleDeb.seq) ELSE p1
    /\ panelOp' = "handleToggle"
    /\ UNCHANGED <<innerWidth, resizeDeb, navClose, evCount>>

\* the timer of the navigation click listener runs: sidebarManager.close()
NavCloseFires ==
    \E t \in navClose :
        /\ Due(t)
        /\ navClose' = navClose \ {t}
        /\ panel' = sidebarClose(panel, t.seq)
        /\ panelOp' = "navClose"
        /\ UNCHANGED <<innerWidth, toggleDeb, resizeDeb, evCount>>

\* the Escape key
PanelEscape ==
    /\ Arrives("escape")
    /\ LET seq == evCount + 1
           p1 == IF panel.menuIsOpen THEN menuClose(panel, seq) ELSE panel
       IN panel' = IF p1.sidebarIsOpen THEN sidebarClose(p1, seq) ELSE p1
    /\ UNCHANGED <<innerWidth, toggleDeb, resizeDeb, navClose>>

\* the window is resized to the width w
PanelResize(w) ==
    /\ Arrives(IF isMobile(innerWidth) /\ ~isMobile(w) THEN "resizeToDesktop" ELSE "resize")
    /\ innerWidth' = w
    /\ resizeDeb' = Timer(ResizeDebounceMs, "window", evCount + 1)
    /\ UNCHANGED <<panel, toggleDeb, navClose>>

\* the timers of the debounced resize listeners run
ResizeDebFires ==
    /\ Due(resizeDeb)
    /\ resizeDeb' = NoTimer
    /\ LET p1 == IF innerWidth > Breakpoint /\ panel.menuIsOpen
                 THEN [menuClose(panel, resizeDeb.seq) EXCEPT !.overflow = ""] ELSE panel
       IN panel' = IF innerWidth > Breakpoint /\ p1.sidebarIsOpen
                   THEN sidebarClose(p1, resizeDeb.seq) ELSE p1
    /\ panelOp' = "resized"
    /\ UNCHANGED <<innerWidth, toggleDeb, navClose, evCount>>

\* a touchmove more than 100 px upwards inside the open menu
MenuSwipeUp ==
    /\ panel.menuIsOpen
    /\ Arrives("swipeUp")
    /\ panel' = menuClose(panel, evCount + 1)
    /\ UNCHANGED <<innerWidth, toggleDeb, resizeDeb, navClose>>

\* a touchmove more than 100 px to the right, from the left edge or not
SidebarSwipe(fromEdge) ==
    /\ Arrives("swipeRight")
    /\ panel' = IF fromEdge /\ ~panel.sidebarIsOpen THEN sidebarOpen(panel, evCount + 1)
                ELSE IF panel.sidebarIsOpen THEN sidebarClose(panel, evCount + 1)
                ELSE panel
    /\ UNCHANGED <<innerWidth, toggleDeb, resizeDeb, navClose>>

\* the 300 ms timer of MobileMenuManager.toggle changed: isAnimating is left set
MenuAnimationEndsKeepingFlag ==
    /\ panel.menuIsAnimating /\ panel.menuAnimLeft <= 0
    /\ panel' = [panel EXCEPT !.menuAnimLeft = 0]
    /\ panelOp' = "menuAnimationEnd"
    /\ UNCHANGED <<innerWidth, toggleDeb, resizeDeb, navClose, evCount>>

\* the 300 ms timer of MobileMenuManager.toggle
MenuAnimationEnds ==
    /\ panel.menuIsAnimating /\ panel.menuAnimLeft <= 0
    /\ panel' = [panel EXCEPT !.menuIsAnimating = FALSE, !.menuAnimLeft = 0]
    /\ panelOp' = "menuAnimationEnd"
    /\ UNCHANGED <<innerWidth, toggleDeb, resizeDeb, navClose, evCount>>

\* the 300 ms timer of SidebarManager.toggle
SidebarAnimationEnds ==
    /\ panel.sidebarIsAnimating /\ panel.sidebarAnimLeft <= 0
    /\ panel' = [panel EXCEPT !.sidebarIsAnimating = FALSE, !.sidebarAnimLeft = 0]
    /\ panelOp' = "sidebarAnimationEnd"
    /\ UNCHANGED <<innerWidth, toggleDeb, resizeDeb, navClose, evCount>>

Elapse(t) == IF t.set THEN [t EXCEPT !.left = t.left - TimeStep] ELSE t

\* TimeStep milliseconds pass
PanelTick ==
    /\ toggleDeb.set \/ resizeDeb.set \/ navClose # {}
         \/ panel.menuIsAnimating \/ panel.sidebarIsAnimating
    /\ ~Due(toggleDeb) /\ ~Due(resizeDeb) /\ \A t \in navClose : ~Due(t)
    /\ ~(panel.menuIsAnimating /\ panel.menuAnimLeft <= 0)
    /\ ~(panel.sidebarIsAnimating /\ panel.sidebarAnimLeft <= 0)
    /\ toggleDeb' = Elapse(toggleDeb)
    /\ resizeDeb' = Elapse(resizeDeb)
    /\ navClose' = { Elapse(t) : t \in navClose }
    /\ panel' = [panel EXCEPT
                   !.menuAnimLeft = IF panel.menuIsAnimating THEN @ - TimeStep ELSE @,
                   !.sidebarAnimLeft = IF panel.sidebarIsAnimating THEN @ - TimeStep ELSE @]
    /\ UNCHANGED <<innerWidth, evCount, panelOp>>

\* the constructors of MobileMenuManager and SidebarManager
PanelConstructed ==
    [menuIsOpen |-> FALSE, menuIsAnimating |-> FALSE, menuAnimLeft |-> 0,
     sidebarIsOpen |-> FALSE, sidebarIsAnimating |-> FALSE, sidebarAnimLeft |-> 0,
     overflow |-> "", menuBlocked |-> FALSE, sidebarBlocked |-> FALSE, mutSeq |-> 0,
     startX |-> 0, touching |-> FALSE, gestureChanges |-> 0]

\* where a touch can start (clientX), and how far right a touchmove has got (deltaX)
StartXs == {0, 20, 200}
DeltaXs == {50, 150}
SwipeEdge == 50
SwipeDistance == 100

\* the touchmove listener of setupSwipeGestures, with |deltaX| > |deltaY| or not
swipeMove(p, deltaX, horizontal, seq) ==
    IF p.startX = 0 \/ ~horizontal THEN p
    ELSE IF p.startX < SwipeEdge /\ deltaX > SwipeDistance /\ ~p.sidebarIsOpen
    THEN sidebarOpen(p, seq)
    ELSE IF p.sidebarIsOpen /\ deltaX > SwipeDistance
    THEN sidebarClose(p, seq)
    ELSE p

\* touchstart outside the mobile menu: the gesture begins at clientX = x
GestureStart(x) ==
    /\ ~panel.touching
    /\ Arrives("touchstart")
    /\ panel' = [panel EXCEPT !.startX = x, !.touching = TRUE, !.gestureChanges = 0]
    /\ UNCHANGED <<innerWidth, toggleDeb, resizeDeb, navClose>>

\* touchmove of the gesture in progress
GestureMove(deltaX, horizontal) ==
    /\ panel.touching
    /\ Arrives("touchmove")
    /\ LET p == swipeMove(panel, deltaX, horizontal, evCount + 1)
       IN panel' = [p EXCEPT !.gestureChanges =
                               IF p.sidebarIsOpen # panel.sidebarIsOpen THEN @ + 1 ELSE @]
    /\ UNCHANGED <<innerWidth, toggleDeb, resizeDeb, navClose>>

\* touchend of the gesture in progress, on no control: startX is reset and the
\* debounced handleToggle listeners set their timers
GestureEnd ==
    /\ panel.touching
    /\ Arrives("touchend")
    /\ panel' = [panel EXCEPT !.startX = 0, !.touching = FALSE]
    /\ toggleDeb' = Timer(ToggleDebounceMs, "elsewhere", evCount + 1)
    /\ UNCHANGED <<innerWidth, resizeDeb, navClose>>

PanelInit ==
    /\ panel = PanelConstructed
    /\ innerWidth \in Widths
    /\ toggleDeb = NoTimer
    /\ resizeDeb = NoTimer
    /\ navClose = {}
    /\ evCount = 0
    /\ panelOp = "none"

PanelIdle ==
    /\ panel = PanelConstructed
    /\ innerWidth = Breakpoint
    /\ toggleDeb = NoTimer
    /\ resizeDeb = NoTimer
    /\ navClose = {}
    /\ evCount = 0
    /\ panelOp = "none"

PanelTimers ==
    \/ ToggleDebFires
    \/ NavCloseFires
    \/ ResizeDebFires
    \/ MenuAnimationEnds
    \/ SidebarAnimationEnds

PanelNext ==
    \/ \E target \in Targets : PanelClick(target)
    \/ \E target \in TouchTargets : PanelTouchEnd(target)
    \/ PanelEscape
    \/ \E w \in Widths : PanelResize(w)
    \/ MenuSwipeUp
    \/ \E fromEdge \in BOOLEAN : SidebarSwipe(fromEdge)
    \/ PanelTimers
    \/ PanelTick

----------------------------------------------------------------------------
(* Search field and navigation filter *)

(* The elements #searchInput and #sidebarNav are taken to exist, and the           *)
(* .nav-section and .nav-item elements to be those buildNavigation wrote.  An       *)
(* element whose style.display is 'block' or unset is shown; the model keeps the    *)
(* elements whose style.display is 'none'.                                          *)

SearchDebounceMs == 300

\* what the user may have typed into #searchInput when an input event fires
SearchQueries == { <<" ">>, <<"A">>, <<" ","Y"," ">>, <<"a"," ","x">>, <<"q">> }

\* String.prototype.includes
Includes(s, q) == \E i \in 0..(Len(s) - Len(q)) : SubSeq(s, i + 1, i + Len(q)) = q

\* the filter callback of searchDocumentation changed: the title alone is tested
matchesTitleOnly(item, searchQuery) == Includes(ToLowerCase(item.title), searchQuery)

\* the filter callback of searchDocumentation
matches(item, searchQuery) ==
    \/ Includes(item.searchText, searchQuery)
    \/ Includes(ToLowerCase(item.title), searchQuery)

\* the .nav-section element (by position) that holds the navigation entry i
GroupOf(nv, i) == Cardinality({j \in 1..i : ~nv[j].hasSub})
Groups(nv) == { GroupOf(nv, i) : i \in 1..Len(nv) }

\* document.querySelector with the selector searchDocumentation builds for a result
ItemOf(nv, result) ==
    IF result.type = "section"
    THEN FirstOf({i \in 1..Len(nv) : nv[i].section = result.id /\ ~nv[i].hasSub})
    ELSE FirstOf({i \in 1..Len(nv) : /\ nv[i].section = result.sectionId
                                     /\ nv[i].hasSub
                                     /\ nv[i].subsection = result.id})

\* section.querySelector('.nav-section-title') of the group g
SectionTitleOf(nv, g) == FirstOf({i \in 1..Len(nv) : GroupOf(nv, i) = g /\ ~nv[i].hasSub})

\* the empty-query branch changed: the entries are shown again, the groups are not
resetItemsOnly(st) == [st EXCEPT !.navHidden = {}]

\* the empty-query branch of searchDocumentation
resetNavigation(st) == [st EXCEPT !.navHidden = {}, !.groupHidden = {}]

\* showSearchEmptyState: the element is created when absent, and shown
showSearchEmptyState(e) == "block"

\* hideSearchEmptyState changed: the element is left as it is
hideSearchEmptyStateNothing(e) == e

\* hideSearchEmptyState: the element, when there is one, is hidden
hideSearchEmptyState(e) == IF e = "absent" THEN "absent" ELSE "none"

\* the filter branch changed: every entry of a group with a result is shown
filterShowingWholeGroups(index, nv, st, searchQuery) ==
    LET Matching(item) == matches(item, searchQuery)
        searchResults == SelectSeq(index, Matching)
        found == {k \in 1..Len(searchResults) : ItemOf(nv, searchResults[k]) # {}}
        shownGroups == { GroupOf(nv, i) : i \in UNION { ItemOf(nv, searchResults[k]) : k \in found } }
    IN [navHidden |-> {i \in 1..Len(nv) : GroupOf(nv, i) \notin shownGroups},
        groupHidden |-> Groups(nv) \ shownGroups,
        emptyState |-> IF searchResults = <<>> THEN showSearchEmptyState(st.emptyState)
                       ELSE hideSearchEmptyState(st.emptyState),
        results |-> searchResults]

\* the filter branch of searchDocumentation: [navHidden, groupHidden, emptyState, results]
filterNavigation(index, nv, st, searchQuery) ==
    LET Matching(item) == matches(item, searchQuery)
        searchResults == SelectSeq(index, Matching)
        found == {k \in 1..Len(searchResults) : ItemOf(nv, searchResults[k]) # {}}
        items == UNION { ItemOf(nv, searchResults[k]) : k \in found }
        visibleSections == { IF searchResults[k].type = "section" THEN searchResults[k].id
                             ELSE searchResults[k].sectionId : k \in found }
        shownGroups == { GroupOf(nv, i) :
                           i \in UNION { FirstOf({j \in 1..Len(nv) : nv[j].section = id}) :
                                           id \in visibleSections } }
        titles == UNION { SectionTitleOf(nv, g) : g \in shownGroups }
    IN [navHidden |-> (1..Len(nv)) \ (items \cup titles),
        groupHidden |-> Groups(nv) \ shownGroups,
        emptyState |-> IF searchResults = <<>> THEN showSearchEmptyState(st.emptyState)
                       ELSE hideSearchEmptyState(st.emptyState),
        results |-> searchResults]

SearchView ==
    [navHidden |-> navHidden, groupHidden |-> groupHidden, emptyState |-> emptyState,
     results |-> <<>>]

\* searchDocumentation(query): the view after it, with the result set when it filtered
searchDocumentation(index, nv, st, query) ==
    LET searchQuery == Trim(ToLowerCase(query))
    IN IF searchQuery = <<>> THEN [resetNavigation(st) EXCEPT !.results = <<>>]
       ELSE filterNavigation(index, nv, st, searchQuery)

NoRun == [by |-> "none", query |-> <<>>, filtered |-> FALSE, results |-> <<>>, seq |-> 0,
          runs |-> 0, inputs |-> 0, before |-> [navHidden |-> {}, groupHidden |-> {}]]

\* searchDocumentation runs, called by the debounced listener or by the Escape listener
RunSearch(by, query, seq) ==
    LET r == searchDocumentation(searchIndex, nav, SearchView, query)
    IN /\ navHidden' = r.navHidden
       /\ groupHidden' = r.groupHidden
       /\ emptyState' = r.emptyState
       /\ searchRun' = [by |-> by, query |-> query,
                        filtered |-> Trim(ToLowerCase(query)) # <<>>,
                        results |-> r.results,
                        seq |-> IF by = "input" THEN seq ELSE searchRun.seq,
                        runs |-> IF by = "input" /\ seq = searchRun.seq
                                 THEN searchRun.runs + 1 ELSE 1,
                        inputs |-> inputCount,
                        before |-> [navHidden |-> navHidden, groupHidden |-> groupHidden]]

\* debounce changed: a call made while a timer is pending is dropped
debounceKeepingFirst(timer, value, seq) ==
    IF timer.set THEN timer ELSE Timer(SearchDebounceMs, value, seq)

\* MobileUtils.debounce(func, 300), called with value: the pending timer is cleared
\* and a new one is set
debounce(timer, value, seq) == Timer(SearchDebounceMs, value, seq)

\* an input event on #searchInput whose value is now value
SearchInput(value) ==
    /\ pc # "unloaded"
    /\ inputCount < MaxEvents
    /\ inputCount' = inputCount + 1
    /\ searchValue' = value
    /\ lastInput' = [value |-> value, ms |-> 0, replaced |-> searchDeb.set]
    /\ searchDeb' = IF handlersBound THEN debounce(searchDeb, value, inputCount + 1)
                    ELSE searchDeb
    /\ UNCHANGED <<navHidden, groupHidden, emptyState, searchRun>>

\* the timer of debouncedSearch fires
SearchDebFires ==
    /\ Due(searchDeb)
    /\ searchDeb' = NoTimer
    /\ RunSearch("input", searchDeb.target, searchDeb.seq)
    /\ UNCHANGED <<searchValue, inputCount, lastInput>>

\* the keydown listener of #searchInput, for the Escape key
SearchEscape ==
    /\ pc = "ready" /\ handlersBound
    /\ searchValue' = <<>>
    /\ RunSearch("escape", <<>>, 0)
    /\ UNCHANGED <<searchDeb, inputCount, lastInput>>

\* TimeStep milliseconds pass
SearchTick ==
    /\ searchDeb.set /\ ~Due(searchDeb)
    /\ searchDeb' = Elapse(searchDeb)
    /\ lastInput' = [lastInput EXCEPT !.ms = @ + TimeStep]
    /\ UNCHANGED <<searchValue, navHidden, groupHidden, emptyState, inputCount, searchRun>>

SearchIdle ==
    /\ searchValue = <<>>
    /\ searchDeb = NoTimer
    /\ navHidden = {}
    /\ groupHidden = {}
    /\ emptyState = "absent"
    /\ inputCount = 0
    /\ lastInput = [value |-> <<>>, ms |-> 0, replaced |-> FALSE]
    /\ searchRun = NoRun

SearchNext ==
    \/ \E value \in SearchQueries : SearchInput(value)
    \/ SearchDebFires
    \/ SearchEscape
    \/ SearchTick

\* init of DocumentationSystem, as far as the search needs it
SearchLoading ==
    \/ DocsConstruct
    \/ \E response \in Responses : FetchFails(response)
    \/ FetchAnswers
    \/ \E body \in Bodies : BodySettles(body)

----------------------------------------------------------------------------
(* Copy control of a code block *)

(* One copy button, created by initCodeCopyButtons with the label "Copy", inside a *)
(* .code-block that holds a code element.  Every revert timer has the same delay,  *)
(* so the timers fire in the order in which they were set.                         *)

MaxCopies == 2
CopyFeedbackMs == 2000

\* what document.execCommand('copy') does: returns true, returns false, or throws
ExecOutcomes == {"true", "false", "throws"}

NoFeedback == [via |-> "none", exec |-> "none", message |-> "none", original |-> "none"]
NoRevert == [id |-> 0, left |-> 0, age |-> 0, original |-> "none"]

\* the timer and the assignments shared by showFeedback and showCopyFeedback
Feedback(b, message, success, via) ==
    [b EXCEPT !.label = message,
              !.background = IF success THEN "success" ELSE "error",
              !.timers = @ \cup {[id |-> b.shown + 1, left |-> CopyFeedbackMs, age |-> 0,
                                  original |-> b.label]},
              !.shown = @ + 1,
              !.last = [via |-> via, exec |-> "none", message |-> message,
                        original |-> b.label]]

\* showFeedback, the closure of copyCode
showFeedback(b, message, success) == Feedback(b, message, success, "api")

\* showCopyFeedback
showCopyFeedback(b, message, success) == Feedback(b, message, success, "fallback")

\* fallbackCopyTextToClipboard, exec being what document.execCommand('copy') does
fallbackCopyTextToClipboard(b, exec) ==
    LET r == IF exec = "throws" THEN showCopyFeedback(b, "Failed", FALSE)
             ELSE showCopyFeedback(b, IF exec = "true" THEN "Copied!" ELSE "Failed",
                                   exec = "true")
    IN [r EXCEPT !.last.exec = exec]

\* the catch callback of copyCode changed: it reports the failure at once
writeRejectedNoFallback(b, exec) == showFeedback(b, "Failed", FALSE)

\* the catch callback of copyCode
writeRejected(b, exec) == fallbackCopyTextToClipboard(b, exec)

\* copyCode(button), up to the promise of writeText when the clipboard API is there
CopyClick(exec) ==
    /\ copyBtn.attempts < MaxCopies
    /\ LET b == [copyBtn EXCEPT !.attempts = @ + 1, !.event = "click"]
       IN IF clipboardApi
          THEN /\ copyBtn' = b
               /\ copyPending' = copyPending + 1
          ELSE /\ copyBtn' = fallbackCopyTextToClipboard(b, exec)
               /\ copyPending' = copyPending
    /\ UNCHANGED clipboardApi

\* a promise of navigator.clipboard.writeText is fulfilled
CopyWriteResolves ==
    /\ copyPending > 0
    /\ copyPending' = copyPending - 1
    /\ copyBtn' = showFeedback([copyBtn EXCEPT !.event = "resolved"], "Copied!", TRUE)
    /\ UNCHANGED clipboardApi

\* a promise of navigator.clipboard.writeText is rejected
CopyWriteRejects(exec) ==
    /\ copyPending > 0
    /\ copyPending' = copyPending - 1
    /\ copyBtn' = writeRejected([copyBtn EXCEPT !.event = "rejected"], exec)
    /\ UNCHANGED clipboardApi

\* the oldest revert timer fires
CopyTimerFires ==
    /\ \E t \in copyBtn.timers :
          /\ t.left <= 0
          /\ \A u \in copyBtn.timers : t.id <= u.id
          /\ copyBtn' = [copyBtn EXCEPT !.label = t.original, !.background = "",
                                        !.timers = @ \ {t}, !.reverted = t,
                                        !.event = "timer"]
    /\ UNCHANGED <<clipboardApi, copyPending>>

\* TimeStep milliseconds pass
CopyTick ==
    /\ copyBtn.timers # {}
    /\ \A t \in copyBtn.timers : t.left > 0
    /\ copyBtn' = [copyBtn EXCEPT
                     !.timers = { [t EXCEPT !.left = @ - TimeStep, !.age = @ + TimeStep] :
                                    t \in copyBtn.timers },
                     !.event = "tick"]
    /\ UNCHANGED <<clipboardApi, copyPending>>

\* the button as initCodeCopyButtons creates it
CopyButtonCreated ==
    [label |-> "Copy", background |-> "", timers |-> {}, shown |-> 0, attempts |-> 0,
     last |-> NoFeedback, reverted |-> NoRevert, event |-> "none"]

CopyInit ==
    /\ copyBtn = CopyButtonCreated
    /\ clipboardApi \in BOOLEAN
    /\ copyPending = 0

CopyIdle ==
    /\ copyBtn = CopyButtonCreated
    /\ clipboardApi = FALSE
    /\ copyPending = 0

CopyNext ==
    \/ \E exec \in ExecOutcomes : CopyClick(exec)
    \/ CopyWriteResolves
    \/ \E exec \in ExecOutcomes : CopyWriteRejects(exec)
    \/ CopyTimerFires
    \/ CopyTick

----------------------------------------------------------------------------
(* buildSearchIndex, buildNavigation and createSubsectionId on bounded inputs *)

MaxSections == 2
MaxSubsections == 2
MaxTitle == 4

SeqsUpTo(S, n) == UNION { [1..k -> S] : k \in 0..n }

\* the subsection titles and the title characters the inputs are made of; the section
\* at position k has the id SectionIds[k]
TreeTitles == { <<"Q"," ","1">>, <<"!">> }
SectionIds == << <<"a">>, <<"b">>, <<"c">>, <<"d">> >>
SlugChars == {"A", "b", "1", " ", "-"}

TreeSubsections == { Subsection(t, <<"y">>) : t \in TreeTitles }
TreeSectionLists ==
    { [k \in 1..Len(subs) |-> Section(SectionIds[k], <<"T">> \o SectionIds[k], <<"x">>, subs[k])] :
        subs \in SeqsUpTo(SeqsUpTo(TreeSubsections, MaxSubsections), MaxSections) }
\* the values this.docs may have when the builders run
Trees == { Doc(secs) : secs \in TreeSectionLists } \cup {NullDoc, NoSectionsDoc}
SlugTitles == SeqsUpTo(SlugChars, MaxTitle)

NoCall == [op |-> "none", threw |-> FALSE, docs |-> NullDoc, index |-> <<>>, nav |-> <<>>]
Call(op, threw) ==
    [op |-> op, threw |-> threw, docs |-> treeDocs, index |-> treeIndex, nav |-> treeNav]

\* this.buildSearchIndex()
TreeBuildIndex ==
    /\ treeIndex' = buildSearchIndex(treeDocs, treeIndex).index
    /\ treeOp' = Call("buildSearchIndex", buildSearchIndex(treeDocs, treeIndex).threw)
    /\ UNCHANGED <<treeDocs, treeNav, slug>>

\* this.buildNavigation()
TreeBuildNavigation ==
    /\ treeNav' = buildNavigation(treeDocs, treeNav).nav
    /\ treeOp' = Call("buildNavigation", buildNavigation(treeDocs, treeNav).threw)
    /\ UNCHANGED <<treeDocs, treeIndex, slug>>

\* this.createSubsectionId(title), on the title and then on its own result
SlugApply ==
    /\ slug' = [title |-> IF slug.done THEN slug.id ELSE slug.title,
                id |-> createSubsectionId(IF slug.done THEN slug.id ELSE slug.title),
                done |-> TRUE,
                from |-> [title |-> slug.title, id |-> slug.id, done |-> slug.done]]
    /\ treeOp' = Call("createSubsectionId", FALSE)
    /\ UNCHANGED <<treeDocs, treeIndex, treeNav>>

NoSlug(title) ==
    [title |-> title, id |-> <<>>, done |-> FALSE,
     from |-> [title |-> <<>>, id |-> <<>>, done |-> FALSE]]

TreeInit ==
    /\ \/ treeDocs \in Trees /\ slug = NoSlug(<<>>)
       \/ treeDocs = NullDoc /\ slug \in { NoSlug(t) : t \in SlugTitles }
    /\ treeIndex = <<>>
    /\ treeNav = <<>>
    /\ treeOp = NoCall

TreeIdle ==
    /\ treeDocs = NullDoc
    /\ slug = NoSlug(<<>>)
    /\ treeIndex = <<>>
    /\ treeNav = <<>>
    /\ treeOp = NoCall

TreeNext ==
    \/ TreeBuildIndex
    \/ TreeBuildNavigation
    \/ SlugApply

----------------------------------------------------------------------------
(* Specifications *)

\* the documentation system
Init == DocsInit /\ ThemeIdle /\ MdIdle /\ PanelIdle /\ SearchIdle /\ CopyIdle /\ TreeIdle
Next == DocsNext /\ UNCHANGED <<themeVars, mdVars, panelVars, searchVars, copyVars, treeVars>>
Spec == Init /\ [][Next]_vars

\* the documentation system, with scripts that call loadSection
ApiNext ==
    \/ DocsNext
    \/ \E s \in ApiSections, sub \in ApiSubs, upd \in BOOLEAN : ApiLoadSection(s, sub, upd)
NextApi == ApiNext /\ UNCHANGED <<themeVars, mdVars, panelVars, searchVars, copyVars, treeVars>>
SpecApi == Init /\ [][NextApi]_vars

\* the theme manager
InitTheme == ThemeInit /\ DocsIdle /\ MdIdle /\ PanelIdle /\ SearchIdle /\ CopyIdle /\ TreeIdle
NextTheme == ThemeNext /\ UNCHANGED <<docsVars, mdVars, panelVars, searchVars, copyVars, treeVars>>
SpecTheme == InitTheme /\ [][NextTheme]_vars

\* renderMarkdown on every input of MdInputs
InitMd == MdInit /\ DocsIdle /\ ThemeIdle /\ PanelIdle /\ SearchIdle /\ CopyIdle /\ TreeIdle
NextMd == MdRender /\ UNCHANGED <<docsVars, themeVars, panelVars, searchVars, copyVars, treeVars>>
SpecMd == InitMd /\ [][NextMd]_vars

\* the mobile menu and the sidebar
InitPanels == PanelInit /\ DocsIdle /\ ThemeIdle /\ MdIdle /\ SearchIdle /\ CopyIdle /\ TreeIdle
NextPanels == PanelNext /\ UNCHANGED <<docsVars, themeVars, mdVars, searchVars, copyVars, treeVars>>
SpecPanels == InitPanels /\ [][NextPanels]_vars

\* touch gestures on a touch device, the menu closed
NextGesture ==
    /\ \/ \E x \in StartXs : GestureStart(x)
       \/ \E deltaX \in DeltaXs, horizontal \in BOOLEAN : GestureMove(deltaX, horizontal)
       \/ GestureEnd
       \/ ToggleDebFires
       \/ SidebarAnimationEnds
       \/ PanelTick
    /\ UNCHANGED <<docsVars, themeVars, mdVars, searchVars, copyVars, treeVars>>
SpecGesture == InitPanels /\ [][NextGesture]_vars

\* the same, where time passes and timers whose time is up run
TimePasses == (PanelTimers \/ PanelTick) /\ UNCHANGED <<docsVars, themeVars, mdVars, searchVars, copyVars, treeVars>>
SpecPanelsFair == SpecPanels /\ WF_vars(TimePasses)

\* the same with at most MaxLiveEvents user events, for the properties of eventual
\* outcomes
MaxLiveEvents == 2
NextPanelsLive == NextPanels /\ evCount' <= MaxLiveEvents
SpecPanelsLive == InitPanels /\ [][NextPanelsLive]_vars /\ WF_vars(TimePasses)

\* the search field, from the construction of DocumentationSystem on
InitSearch == DocsInit /\ hist = << <<>> >> /\ ThemeIdle /\ MdIdle /\ PanelIdle /\ SearchIdle /\ CopyIdle /\ TreeIdle
NextSearch ==
    \/ SearchLoading /\ UNCHANGED <<themeVars, mdVars, panelVars, searchVars, copyVars, treeVars>>
    \/ SearchNext /\ UNCHANGED <<themeVars, docsVars, mdVars, panelVars, copyVars, treeVars>>
SpecSearch == InitSearch /\ [][NextSearch]_vars

\* the builders of the index and of the navigation, and createSubsectionId
InitTree == TreeInit /\ DocsIdle /\ ThemeIdle /\ MdIdle /\ PanelIdle /\ SearchIdle /\ CopyIdle
NextTree == TreeNext /\ UNCHANGED <<docsVars, themeVars, mdVars, panelVars, searchVars, copyVars>>
SpecTree == InitTree /\ [][NextTree]_vars

\* the copy control
InitCopy == CopyInit /\ DocsIdle /\ ThemeIdle /\ MdIdle /\ PanelIdle /\ SearchIdle /\ TreeIdle
NextCopy == CopyNext /\ UNCHANGED <<docsVars, themeVars, mdVars, panelVars, searchVars, treeVars>>
SpecCopy == InitCopy /\ [][NextCopy]_vars

\* the whole page.  The components share no variable, so a behaviour loads the
\* document and then exercises one of them: the navigation, the theme, the menu and
\* the sidebar (at most MaxOps events), or the search field (at most MaxOps inputs)
MaxOps == 2
DocsUntouched == Len(hist) = 1 /\ lastOp.op \in {"none", "init"} /\ ~popPending
ThemeUntouched == themePc = "unloaded" /\ ~ambientDark
PanelUntouched == evCount = 0
SearchUntouched == inputCount = 0 /\ searchRun.by = "none"
ThemeEvents == ThemeConstruct \/ ThemeTransitionTimer \/ ThemeToggle \/ AmbientChange
InitAll ==
    /\ DocsInit /\ hist = << <<>> >>
    /\ ThemeIdle /\ PanelInit /\ SearchIdle /\ MdIdle /\ CopyIdle /\ TreeIdle
NextAll ==
    \/ /\ ThemeUntouched /\ PanelUntouched /\ SearchUntouched
       /\ DocsNext
       /\ UNCHANGED <<themeVars, mdVars, panelVars, searchVars, copyVars, treeVars>>
    \/ /\ pc = "ready" /\ DocsUntouched /\ PanelUntouched /\ SearchUntouched
       /\ ThemeEvents
       /\ UNCHANGED <<docsVars, mdVars, panelVars, searchVars, copyVars, treeVars>>
    \/ /\ pc = "ready" /\ DocsUntouched /\ ThemeUntouched /\ SearchUntouched
       /\ PanelNext
       /\ evCount' <= MaxOps
       /\ UNCHANGED <<docsVars, themeVars, mdVars, searchVars, copyVars, treeVars>>
    \/ /\ pc = "ready" /\ DocsUntouched /\ ThemeUntouched /\ PanelUntouched
       /\ SearchNext
       /\ inputCount' <= MaxOps
       /\ UNCHANGED <<docsVars, themeVars, mdVars, panelVars, copyVars, treeVars>>
SpecAll == InitAll /\ [][NextAll]_vars

----------------------------------------------------------------------------
(* Claims about the section loader *)

\* a step in which a handler has called loadSection
InitLoads == pc # "ready" /\ pc' = "ready"
ClickLoads == \E i \in 1..Len(nav) : NavClick(i)
ApiLoads == \E s \in ApiSections, sub \in ApiSubs, upd \in BOOLEAN : ApiLoadSection(s, sub, upd)
LoadStep == InitLoads \/ ClickLoads \/ PopState \/ ApiLoads

\* the subsection a view shows for the argument sub
Shown(sub) == IF Truthy(sub) THEN sub ELSE NoSub

\* C1: a fragment that loadSection(s, sub) wrote is consumed again: when the initial
\* load or the popstate listener reads an entry that loadSection(s, sub) wrote, the
\* content shows section s, scrolled to sub when one was given, and not the error state
C1_WrittenFragmentResolves ==
    (pc = "ready" /\ lastOp.op \in {"init", "popstate"} /\ lastOp.by.nav)
        => /\ content.kind = "section"
           /\ content.id = lastOp.by.sec
           /\ content.target = Shown(lastOp.by.sub)

\* C2: loadSection with an id that matches no section shows the error state and
\* changes nothing else: currentSection, the history and its current entry, and the
\* active navigation entries stay as they were
C2_MissingSectionOnlyShowsError ==
    [][(LoadStep /\ docs'.kind = "doc" /\ ~lastOp'.found)
         => /\ content' = showError("Section not found.")
            /\ currentSection' = currentSection
            /\ hist' = hist /\ hidx' = hidx
            /\ active' = active]_vars

\* C2 happens: the popstate listener met a missing section while an entry was active
C2_Witness ==
    /\ lastOp.op = "popstate" /\ ~lastOp.found /\ docs.kind = "doc"
    /\ content.kind = "error"
    /\ active # {}
    /\ currentSection # lastOp.sec

\* the argument sub is given and is the derived id of no subsection of the section
UnknownSubsection(d, sectionId, sub) ==
    /\ sub.given
    /\ \A i \in FindSection(d, sectionId) :
         \A j \in 1..Len(d.sections[i].subsections) :
            createSubsectionId(d.sections[i].subsections[j].title) # sub.id

\* C3: loadSection(id, subsectionId) with an existing id and a subsectionId that is
\* no derived id of its subsections shows the error message and changes nothing else:
\* the history is not written and the active navigation entries stay
C3_UnknownSubsectionOnlyShowsError ==
    [][(LoadStep /\ lastOp'.found /\ UnknownSubsection(docs, lastOp'.sec, lastOp'.sub))
         => /\ content'.kind = "error"
            /\ hist' = hist /\ hidx' = hidx
            /\ active' = active]_vars

\* the fragment read back after a step
FragmentRead == LocationFragment(hist'[hidx'])

C7_FetchFailureFallsBack ==
    /\ fetchOutcome = "failed" => (pc = "ready" /\ docs = getSampleDocs)
    /\ pc = "ready" => (content.kind \in {"section", "error"} /\ ~isLoading)
    /\ pc \in {"fetching", "parsing"} => fetchOutcome = "pending"

\* C7 happens: the fetch failed and a section of the sample document is shown
C7_Witness ==
    /\ fetchOutcome = "failed" /\ pc = "ready"
    /\ docs = getSampleDocs
    /\ content.kind = "section"

----------------------------------------------------------------------------
(* Claims about the theme manager *)

\* C8: once the user has toggled, no ambient change alters the theme, whether or not
\* the store accepted the write
C8_ToggledThemeIsPinned ==
    [][(themePc = "ready" /\ userToggled /\ ambientDark' # ambientDark)
         => theme' = theme]_vars

\* C9: with nothing stored and no toggle yet, an ambient change sets the theme to the
\* ambient value and applies it, and writes nothing to the store
C9_AmbientTracked ==
    [][(themePc = "ready" /\ stored = "null" /\ ~userToggled /\ ambientDark' # ambientDark)
         => /\ theme' = getSystemTheme(ambientDark')
            /\ dataTheme' = theme'
            /\ metaColor' = (IF ambientDark' THEN "#1a1a2e" ELSE "#ffffff")
            /\ stored' = stored]_vars

\* C9 happens: the ambient scheme turned dark and the untouched theme followed
C9_Witness ==
    /\ themeOp = "ambient" /\ stored = "null" /\ ~userToggled
    /\ ambientDark /\ theme = "dark" /\ dataTheme = "dark"

\* the preference that a read of the store yields: none when the store cannot be read
ReadablePreference == IF storageMode = "disabled" THEN "null" ELSE stored

\* C10: the constructor sets the theme to the stored preference when there is one and
\* to the ambient scheme otherwise, applies it, and writes nothing to the store
C10_InitialTheme ==
    [][(themePc = "unloaded" /\ themePc' = "ready")
         => /\ theme' = (IF ReadablePreference # "null" THEN stored
                         ELSE getSystemTheme(ambientDark))
            /\ dataTheme' = theme'
            /\ stored' = stored]_vars

\* C10 happens: constructed with a stored preference that differs from the ambient scheme
C10_Witness ==
    /\ themeOp = "construct" /\ themePc = "ready"
    /\ stored = "dark" /\ ~ambientDark
    /\ theme = "dark" /\ dataTheme = "dark"

\* C11 as stated: toggle() flips the theme, applies it and writes it to the store, so
\* that the store, data-theme and this.theme agree after every toggle
C11_ToggleFlipsAppliesStores ==
    [][ThemeToggle
         => /\ theme \in {"light", "dark"} /\ theme' \in {"light", "dark"} /\ theme' # theme
            /\ dataTheme' = theme'
            /\ stored' = theme']_vars

\* C11 amended: toggle() flips the theme between light and dark and applies it; two
\* consecutive toggles restore the theme; when the store accepts the write, the store,
\* data-theme and this.theme agree afterwards, and otherwise the store stays as it was
C11_ToggleFlipsAppliesStoresIfWritable ==
    [][ThemeToggle
         => /\ theme \in {"light", "dark"} /\ theme' \in {"light", "dark"} /\ theme' # theme
            /\ dataTheme' = theme'
            /\ themeOp = "toggle" => theme' = themeBeforeToggle
            /\ storageMode = "ok" => stored' = theme'
            /\ storageMode # "ok" => stored' = stored]_vars

\* C11 happens: two toggles in a row on a store that accepts writes
C11_Witness ==
    /\ themeOp = "toggle" /\ storageMode = "ok"
    /\ themeBeforeToggle = "light" /\ theme = "dark"
    /\ stored = "dark" /\ dataTheme = "dark"
    /\ ENABLED (ThemeToggle /\ themeOp = "toggle")

\* C12: store failures are swallowed.  When reading throws, the constructor takes the
\* ambient scheme and applies it, and ambient changes are followed, as with nothing
\* stored; when writing throws, toggle() still flips and applies the theme; and no
\* exception leaves a handler
C12_StoreFailuresSwallowed ==
    [][/\ (storageMode = "disabled" /\ themePc = "unloaded" /\ themePc' = "ready")
          => (theme' = getSystemTheme(ambientDark) /\ dataTheme' = theme')
       /\ (storageMode = "disabled" /\ themePc = "ready" /\ ~userToggled
             /\ ambientDark' # ambientDark)
          => (theme' = getSystemTheme(ambientDark') /\ dataTheme' = theme')
       /\ (storageMode # "ok" /\ ThemeToggle)
          => (theme' # theme /\ theme' \in {"light", "dark"} /\ dataTheme' = theme')
       /\ ~themeErr']_vars

\* C12 happens: the store holds a preference that cannot be read, the theme was taken
\* from the ambient scheme, and a toggle whose write threw has flipped it
C12_Witness ==
    /\ storageMode = "disabled" /\ stored = "dark" /\ ~ambientDark
    /\ themeOp = "toggle" /\ themeBeforeToggle = "light"
    /\ theme = "dark" /\ dataTheme = "dark" /\ ~themeErr

----------------------------------------------------------------------------
(* Claims about the markdown renderer *)

\* the input is one inline code span and nothing else
InlineSpanInput ==
    /\ Len(mdInput) >= 3
    /\ mdInput[1] = Backtick /\ mdInput[Len(mdInput)] = Backtick
    /\ \A k \in 2..(Len(mdInput) - 1) : mdInput[k] # Backtick

\* the input is one fenced code block and nothing else
FencedInput ==
    /\ FenceMatch(mdInput, 1).ok
    /\ FenceMatch(mdInput, 1).next = Len(mdInput) + 1

\* a character of the output that the browser reads as markup
RawMarkupChars == {"<", ">", "&"}

\* C5: when the whole input is code (one inline code span or one fenced code block),
\* no '<', '>' or '&' of the input reaches renderMarkdown's output unescaped.
C5_CodeContentEscaped ==
    (mdDone /\ (InlineSpanInput \/ FencedInput))
        => \A k \in 1..Len(mdOutput) : mdOutput[k] \notin RawMarkupChars

\* block occurs in html as it is
OccursIn(block, html) ==
    \E k \in 0..(Len(html) - Len(block)) : SubSeq(html, k + 1, k + Len(block)) = block

\* C6: the markup that stage 1 emitted for each fenced code block of the input is in
\* renderMarkdown's output as stage 1 emitted it: no later stage rewrote any of it.
C6_CodeBlockMarkupUnchanged ==
    mdDone => \A b \in 1..Len(CodeBlocksOf(mdInput, 1)) :
                  OccursIn(CodeBlocksOf(mdInput, 1)[b], mdOutput)

----------------------------------------------------------------------------
(* Claims about the mobile menu and the sidebar *)

\* the state of the program in panel: everything but the history fields
ProgramView(p) ==
    [menuIsOpen |-> p.menuIsOpen, menuIsAnimating |-> p.menuIsAnimating,
     menuAnimLeft |-> p.menuAnimLeft, sidebarIsOpen |-> p.sidebarIsOpen,
     sidebarIsAnimating |-> p.sidebarIsAnimating, sidebarAnimLeft |-> p.sidebarAnimLeft,
     overflow |-> p.overflow]

\* C13: while a panel's transition is in progress, a call of its toggle() changes no
\* state, and its isOpen stays what the toggle that began the transition made it, so
\* that two toggles inside one window leave the target of the first
C13_ToggleIsNoOpMidTransition ==
    [][/\ panel.menuIsAnimating
          => /\ ProgramView(menuToggle(panel, evCount)) = ProgramView(panel)
             /\ panel'.menuIsOpen = panel.menuIsOpen
       /\ panel.sidebarIsAnimating
          => /\ ProgramView(sidebarToggle(panel, evCount)) = ProgramView(panel)
             /\ panel'.sidebarIsOpen = panel.sidebarIsOpen]_vars

\* C13 happens: the menu was opened and, inside the window, handleToggle called
\* toggle() again
C13_Witness ==
    /\ panelOp = "handleToggle"
    /\ panel.menuIsAnimating /\ panel.menuBlocked
    /\ panel.menuIsOpen

\* C14: when the window becomes wider than the breakpoint while the menu or the
\* sidebar is open, that panel is closed in the end
C14_DesktopWidthClosesPanels ==
    /\ (panelOp = "resizeToDesktop" /\ panel.menuIsOpen) ~> ~panel.menuIsOpen
    /\ (panelOp = "resizeToDesktop" /\ panel.sidebarIsOpen) ~> ~panel.sidebarIsOpen

\* C15: body.style.overflow is 'hidden' exactly when the menu or the sidebar is open
C15_ScrollSuppressedIffPanelOpen ==
    (panel.overflow = "hidden") <=> (panel.menuIsOpen \/ panel.sidebarIsOpen)

\* C16: the menu and the sidebar change in the order in which the user events that
\* change them arrived: no change comes from an earlier event than the change before
C16_MutationsInArrivalOrder ==
    [][panel'.mutSeq >= panel.mutSeq]_vars

----------------------------------------------------------------------------
(* Search *)

DebouncedSearchRuns == searchDeb.set /\ ~searchDeb'.set

\* C17: the search input is debounced: whenever the debounced listener executes
\* searchDocumentation, it does so for the last input event only (no input event that
\* another one followed before its 300 ms were over is executed), with the value of
\* that last input, once, and 300 ms after it (at the first instant of the model's
\* time that is no earlier)
C17_SearchInputDebounced ==
    [][DebouncedSearchRuns =>
         /\ searchRun'.by = "input"
         /\ searchRun'.seq = inputCount
         /\ searchRun'.query = lastInput.value
         /\ searchRun'.runs = 1
         /\ lastInput.ms >= SearchDebounceMs
         /\ lastInput.ms < SearchDebounceMs + TimeStep]_vars

\* an input event arrived while the timer of an earlier one was pending, and the
\* debounced listener has executed the search for it
C17_Witness ==
    /\ searchRun.by = "input"
    /\ lastInput.replaced
    /\ searchRun.seq = inputCount
    /\ searchRun.query = lastInput.value
    /\ ~searchDeb.set

\* the query of the last execution of searchDocumentation is empty after trimming
LastQueryBlank == searchRun.by # "none" /\ Trim(searchRun.query) = <<>>

\* C18: after an execution of searchDocumentation whose query is empty after trimming,
\* every navigation entry and every navigation group is shown, whatever an earlier
\* query had hidden
C18_BlankQueryShowsAll ==
    LastQueryBlank => navHidden = {} /\ groupHidden = {}

\* a query of blanks was executed when entries and groups were hidden
C18_Witness ==
    /\ LastQueryBlank
    /\ searchRun.query # <<>>
    /\ searchRun.before.navHidden # {}
    /\ searchRun.before.groupHidden # {}
    /\ navHidden = {} /\ groupHidden = {}

\* the query of the last execution of searchDocumentation, as it was matched
LastQuery == Trim(ToLowerCase(searchRun.query))
LastQueryFiltered == searchRun.by # "none" /\ LastQuery # <<>>

\* no two sections share an id and no two subsections of a section share a derived id
UniqueIds ==
    \A i, j \in 1..Len(nav) :
        (/\ nav[i].section = nav[j].section
         /\ nav[i].hasSub = nav[j].hasSub
         /\ nav[i].subsection = nav[j].subsection) => i = j

\* the navigation entry i is shown: neither it nor its group is hidden
EntryVisible(i) == i \notin navHidden /\ GroupOf(nav, i) \notin groupHidden

\* the record of the navigation entry i (index and navigation are built in the same
\* order) matched the last query
RecordMatched(i) == matches(searchIndex[i], LastQuery)

GroupMatched(g) == \E i \in 1..Len(nav) : GroupOf(nav, i) = g /\ RecordMatched(i)

\* C19: after a non-empty query, ids being unique, a navigation entry is visible
\* exactly when its own record matched, and a group is visible exactly when at least
\* one of its entries matched
C19_VisibleIffOwnRecordMatched ==
    (LastQueryFiltered /\ UniqueIds /\ Len(searchIndex) = Len(nav)) =>
        /\ \A i \in 1..Len(nav) : EntryVisible(i) <=> RecordMatched(i)
        /\ \A g \in Groups(nav) : (g \notin groupHidden) <=> GroupMatched(g)

\* C19, amended: after a non-empty query, ids being unique, a subsection entry is
\* visible exactly when its own record matched, a section-title entry exactly when
\* its own record or the record of a subsection of its section matched, and a group
\* exactly when at least one of its entries matched
C19_VisibleIffMatchedOrTitleOfMatch ==
    (LastQueryFiltered /\ UniqueIds /\ Len(searchIndex) = Len(nav)) =>
        /\ \A i \in 1..Len(nav) :
              EntryVisible(i) <=> IF nav[i].hasSub THEN RecordMatched(i)
                                  ELSE GroupMatched(GroupOf(nav, i))
        /\ \A g \in Groups(nav) : (g \notin groupHidden) <=> GroupMatched(g)

\* a query matched a subsection and not its section: the subsection entry and the
\* section title are shown, another subsection entry of the group is hidden
C19_Witness ==
    /\ LastQueryFiltered /\ UniqueIds /\ Len(searchIndex) = Len(nav)
    /\ \E i, j, k \in 1..Len(nav) :
          /\ GroupOf(nav, i) = GroupOf(nav, j) /\ GroupOf(nav, j) = GroupOf(nav, k)
          /\ ~nav[i].hasSub /\ ~RecordMatched(i) /\ EntryVisible(i)
          /\ nav[j].hasSub /\ RecordMatched(j) /\ EntryVisible(j)
          /\ nav[k].hasSub /\ ~RecordMatched(k) /\ ~EntryVisible(k)
    /\ groupHidden # {}

\* the lowercased "title content" text of a record contains lowercase(trim(q)), q
\* being the query of the last execution
TextContainsQuery(item) ==
    Includes(ToLowerCase(item.title \o <<" ">> \o item.content),
             ToLowerCase(Trim(searchRun.query)))

\* C20: the result set of a non-empty query q is exactly the records whose lowercased
\* "title content" text contains lowercase(trim(q)), in the order of the index; a
\* query equal to the exact title of a section returns the record of that section
C20_ResultsAreTextMatches ==
    LastQueryFiltered =>
        /\ searchRun.results = SelectSeq(searchIndex, TextContainsQuery)
        /\ \A k \in 1..Len(searchIndex) :
              (searchIndex[k].type = "section" /\ searchIndex[k].title = searchRun.query)
                 => \E n \in 1..Len(searchRun.results) :
                        searchRun.results[n] = searchIndex[k]

\* a query equal to the exact title of a section was executed; it returned the record
\* of that section and left other records out
C20_Witness ==
    /\ LastQueryFiltered
    /\ \E k \in 1..Len(searchIndex) :
          /\ searchIndex[k].type = "section"
          /\ searchIndex[k].title = searchRun.query
          /\ \E n \in 1..Len(searchRun.results) : searchRun.results[n] = searchIndex[k]
    /\ Len(searchRun.results) < Len(searchIndex)

\* C21: after the execution of a non-empty query, the "no results" element is shown
\* exactly when the result set of that query is empty
C21_EmptyStateIffNoResults ==
    LastQueryFiltered => (emptyState = "block" <=> searchRun.results = <<>>)

\* a query with results was executed while the "no results" element of an earlier
\* query was there, and hid it
C21_Witness ==
    /\ LastQueryFiltered
    /\ searchRun.results # <<>>
    /\ emptyState = "none"

----------------------------------------------------------------------------
(* Active navigation entry *)

(* The IntersectionObserver of initSmoothScrolling observes nothing: its           *)
(* DOMContentLoaded listener is added to document while DOMContentLoaded is being  *)
(* dispatched to document, so it is never invoked, and the callback never runs.    *)

\* the navigation entries that carry the pair (sectionId, sub)
EntriesOf(nv, sectionId, sub) ==
    {i \in 1..Len(nv) : /\ nv[i].section = sectionId
                         /\ IF sub.given THEN nv[i].hasSub /\ nv[i].subsection = sub.id
                            ELSE ~nv[i].hasSub}

\* the section sectionId of the document has a subsection whose derived id is sub
ExistingSubsection(d, sectionId, sub) ==
    \E i \in FindSection(d, sectionId) :
        \E j \in 1..Len(d.sections[i].subsections) :
            createSubsectionId(d.sections[i].subsections[j].title) = sub.id

\* C29: after a successful loadSection(s, sub) for an existing section s and an
\* existing subsection sub, or none, the navigation entry of exactly that pair is
\* active and no other is; and at most one navigation entry is active in every state
C29_LoadedEntryIsTheActiveOne ==
    [][/\ Cardinality(active') <= 1
       /\ (/\ LoadStep /\ lastOp'.found /\ ~lastOp'.threw
           /\ lastOp'.sub.given => ExistingSubsection(docs', lastOp'.sec, lastOp'.sub))
            => /\ active' = EntriesOf(nav', lastOp'.sec, lastOp'.sub)
               /\ Cardinality(active') = 1]_vars

----------------------------------------------------------------------------
(* Index and navigation builders *)

RECURSIVE SubsectionCount(_)
SubsectionCount(secs) ==
    IF secs = <<>> THEN 0 ELSE Len(Head(secs).subsections) + SubsectionCount(Tail(secs))

\* the subsection records of the index that carry the section id sid, in index order
SubRecordsOf(index, sid) ==
    LET OfSection(r) == r.type = "subsection" /\ r.sectionId = sid
    IN SelectSeq(index, OfSection)

SectionRecordsOf(index) ==
    LET IsSection(r) == r.type = "section"
    IN SelectSeq(index, IsSection)

\* C22: for every document tree, buildSearchIndex produces exactly
\* count(sections) + count(subsections) records, one per section and one per
\* subsection, and every subsection record carries the id of its parent section and
\* an id equal to createSubsectionId of the title of that subsection
C22_IndexHasOneRecordPerNode ==
    [][(treeOp'.op = "buildSearchIndex" /\ treeDocs.kind = "doc") =>
         /\ Len(treeIndex') = Len(treeDocs.sections) + SubsectionCount(treeDocs.sections)
         /\ Len(SectionRecordsOf(treeIndex')) = Len(treeDocs.sections)
         /\ \A i \in 1..Len(treeDocs.sections) :
               LET sec == treeDocs.sections[i]
                   recs == SubRecordsOf(treeIndex', sec.id)
               IN /\ Len(recs) = Len(sec.subsections)
                  /\ \A j \in 1..Len(recs) :
                        /\ recs[j].title = sec.subsections[j].title
                        /\ recs[j].id = createSubsectionId(sec.subsections[j].title)]_vars

\* the index of a tree of two sections with two subsections each has been built
C22_Witness ==
    /\ treeOp.op = "buildSearchIndex"
    /\ treeDocs.kind = "doc"
    /\ Len(treeDocs.sections) = 2
    /\ Len(treeIndex) = 6
    /\ \E k \in 1..Len(treeIndex) : treeIndex[k].type = "subsection" /\ treeIndex[k].id = <<>>

\* the position, in document order, of section i among the sections and subsections
PositionOf(secs, i) == i + SubsectionCount(SubSeq(secs, 1, i - 1))

\* C23: buildSearchIndex rebuilds the index wholesale and in document order: the
\* record of each section is followed by the records of its subsections in their
\* order, before the record of the next section; a second call on the same tree
\* yields the same sequence; and the document tree is left unchanged
C23_IndexRebuiltInDocumentOrder ==
    [][(treeOp'.op = "buildSearchIndex" /\ treeDocs.kind = "doc") =>
         /\ treeDocs' = treeDocs
         /\ Len(treeIndex') = Len(treeDocs.sections) + SubsectionCount(treeDocs.sections)
         /\ \A i \in 1..Len(treeDocs.sections) :
               LET sec == treeDocs.sections[i]
                   p == PositionOf(treeDocs.sections, i)
               IN /\ treeIndex'[p].type = "section"
                  /\ treeIndex'[p].id = sec.id
                  /\ treeIndex'[p].title = sec.title
                  /\ \A j \in 1..Len(sec.subsections) :
                        /\ treeIndex'[p + j].type = "subsection"
                        /\ treeIndex'[p + j].sectionId = sec.id
                        /\ treeIndex'[p + j].title = sec.subsections[j].title
         /\ treeIndex # <<>> => treeIndex' = treeIndex]_vars

\* buildSearchIndex was called again on a tree whose index was built: the index is
\* the same sequence as before the call
C23_Witness ==
    /\ treeOp.op = "buildSearchIndex"
    /\ treeDocs.kind = "doc"
    /\ treeOp.index # <<>>
    /\ treeIndex = treeOp.index
    /\ Len(treeDocs.sections) = 2
    /\ Len(treeDocs.sections[1].subsections) = 2

\* C27: buildNavigation produces one navigation entry per section, carrying only the
\* section id, and one per subsection, carrying the section id and the derived
\* subsection id, in document order; building it again from the same tree replaces
\* the entries with identical ones
C27_NavigationHasOneEntryPerNode ==
    [][(treeOp'.op = "buildNavigation" /\ treeDocs.kind = "doc") =>
         /\ Len(treeNav') = Len(treeDocs.sections) + SubsectionCount(treeDocs.sections)
         /\ \A i \in 1..Len(treeDocs.sections) :
               LET sec == treeDocs.sections[i]
                   p == PositionOf(treeDocs.sections, i)
               IN /\ treeNav'[p].section = sec.id
                  /\ ~treeNav'[p].hasSub
                  /\ \A j \in 1..Len(sec.subsections) :
                        /\ treeNav'[p + j].section = sec.id
                        /\ treeNav'[p + j].hasSub
                        /\ treeNav'[p + j].subsection =
                              createSubsectionId(sec.subsections[j].title)
         /\ treeNav # <<>> => treeNav' = treeNav]_vars

\* buildNavigation was called again on a tree whose navigation was built: the
\* entries are the same as before the call
C27_Witness ==
    /\ treeOp.op = "buildNavigation"
    /\ treeDocs.kind = "doc"
    /\ treeOp.nav # <<>>
    /\ treeNav = treeOp.nav
    /\ Len(treeDocs.sections) = 2
    /\ Len(treeDocs.sections[2].subsections) = 2

\* runs of [a-z0-9] separated by single hyphens, no hyphen at either end
SlugShaped(id) ==
    /\ \A k \in 1..Len(id) : id[k] \in LowerLetters \cup Digits \cup {"-"}
    /\ id # <<>> => id[1] # "-" /\ id[Len(id)] # "-"
    /\ \A k \in 1..(Len(id) - 1) : ~(id[k] = "-" /\ id[k + 1] = "-")

\* C30: the result of createSubsectionId holds only runs of [a-z0-9] separated by
\* single hyphens, with no hyphen at the start or at the end (it may be empty), and
\* createSubsectionId applied to its own result returns that result
C30_SlugShapedAndIdempotent ==
    slug.done => /\ SlugShaped(slug.id)
                 /\ slug.from.done => slug.id = slug.from.id

\* createSubsectionId was applied to a title it changes, then to its own result
C30_Witness ==
    /\ slug.done /\ slug.from.done
    /\ slug.from.title # slug.from.id
    /\ slug.id = slug.from.id
    /\ \E k \in 1..Len(slug.id) : slug.id[k] = "-"
    /\ Len(slug.from.title) > Len(slug.id)

----------------------------------------------------------------------------
(* Paragraph wrapping *)

\* the characters the markdown syntax of renderMarkdown is made of, line breaks
\* (paragraph and line separators) included
MarkdownChars == {Backtick, "*", "#", "-", "\n", ">", "[", "]", "(", ")"}

\* the input is non-empty text without any markdown token
PlainTextInput ==
    /\ mdInput # <<>>
    /\ \A k \in 1..Len(mdInput) : mdInput[k] \notin MarkdownChars \cup Digits

\* C25: for every non-empty plain-text input that holds no markdown token,
\* renderMarkdown returns the input wrapped in one paragraph element
C25_PlainTextIsOneParagraph ==
    (mdDone /\ PlainTextInput) => mdOutput = <<"<p>">> \o mdInput \o <<"</p>">>

\* the emitted tokens that open (or separate) block-level elements
BlockTags == { "<div class=\"code-block\" data-language=\"", "<div class=\"code-header\">",
               "<pre><code class=\"language-", "<h4>", "<h3>", "<h2>", "<li>", "<ul>",
               "<ol>", "<blockquote>", "<hr>", "<p>", "</p><p>" }

\* what renderMarkdown has built when it decides about the paragraph wrap
RenderedForm == LaterStages(mdStage1)

\* C26: renderMarkdown returns the empty string for empty input, and for every other
\* input whose rendered form does not start with a block-level tag the output is
\* wrapped in a paragraph tag
C26_NonBlockOutputIsWrapped ==
    mdDone =>
        /\ mdInput = <<>> => mdOutput = <<>>
        /\ (mdInput # <<>> /\ RenderedForm # <<>> /\ RenderedForm[1] \notin BlockTags)
              => mdOutput = <<"<p>">> \o RenderedForm \o <<"</p>">>

----------------------------------------------------------------------------
(* Copy control *)

\* a step in which copyCode finds no clipboard API, or a writeText promise is rejected
ClipboardFails ==
    \/ copyBtn'.attempts = copyBtn.attempts + 1 /\ ~clipboardApi
    \/ copyPending' < copyPending /\ copyBtn'.event = "rejected"

FeedbackShown == copyBtn'.shown = copyBtn.shown + 1
RevertTimerFires == copyBtn'.event = "timer" /\ copyBtn'.timers # copyBtn.timers

\* C24: when the clipboard API is unavailable or its write is rejected, copyCode
\* attempts the fallback; the control shows "Failed" only if the fallback failed too,
\* and "Copied!" if it succeeded; and after a single copy attempt the label reverts
\* to what it was before, 2000 ms after the feedback (at the first instant of the
\* model's time that is no earlier)
C24_FallbackBeforeFailed ==
    [][/\ ClipboardFails =>
            /\ FeedbackShown
            /\ copyBtn'.last.via = "fallback"
            /\ copyBtn'.label = IF copyBtn'.last.exec = "true" THEN "Copied!" ELSE "Failed"
       /\ (FeedbackShown /\ copyBtn'.label = "Failed") =>
            copyBtn'.last.via = "fallback" /\ copyBtn'.last.exec \in {"false", "throws"}
       /\ (RevertTimerFires /\ copyBtn.attempts = 1) =>
            /\ copyBtn'.label = "Copy"
            /\ copyBtn'.label = copyBtn.last.original
            /\ copyBtn'.reverted.age >= CopyFeedbackMs
            /\ copyBtn'.reverted.age < CopyFeedbackMs + TimeStep]_vars

\* the only copy attempt met a rejected write, the fallback failed too, "Failed" was
\* shown and the label is "Copy" again
C24_Witness ==
    /\ clipboardApi
    /\ copyBtn.attempts = 1 /\ copyPending = 0
    /\ copyBtn.last.via = "fallback" /\ copyBtn.last.message = "Failed"
    /\ copyBtn.event = "timer"
    /\ copyBtn.timers = {}
    /\ copyBtn.label = "Copy"

----------------------------------------------------------------------------
(* Document tree *)

\* C28: once the document tree is loaded, no operation changes it: activating a
\* navigation entry, loadSection, the popstate listener, the search, the theme, the
\* menu, the sidebar, resize and swipe events leave this.docs as it was loaded
C28_LoadedTreeNeverChanges ==
    [][pc = "ready" => docs' = docs]_vars

\* a fetched tree with sections is loaded, an entry was clicked, the user went back
\* and the popstate listener loaded a section of the same tree
C28_Witness ==
    /\ pc = "ready" /\ fetchOutcome = "ok"
    /\ Len(docs.sections) > 0
    /\ Len(hist) > 1
    /\ lastOp.op = "popstate"
    /\ lastOp.found

----------------------------------------------------------------------------
(* Location changes made by the browser *)

\* the popstate listener runs in this step
PopStateRuns == popPending /\ ~popPending'

\* C31: handling a popstate event never writes the location: loadSection is called
\* with updateURL = false, no history entry is pushed and the current entry stays
\* the one the browser moved to, whether or not the section is found
C31_PopStateNeverWritesLocation ==
    [][PopStateRuns =>
          /\ lastOp'.op = "popstate" /\ lastOp'.upd = FALSE
          /\ hist' = hist /\ hidx' = hidx /\ histBy' = histBy]_vars

\* the user went back to an entry whose fragment names no section, and the popstate
\* listener showed the error
C31_Witness ==
    /\ lastOp.op = "popstate" /\ ~lastOp.found /\ ~lastOp.threw
    /\ Len(hist) > 1 /\ hidx < Len(hist)
    /\ ~popPending

----------------------------------------------------------------------------
(* Copy control after its feedback *)

\* every revert timer has fired and no clipboard write is still pending
CopyFeedbackOver == copyBtn.timers = {} /\ copyPending = 0

\* C32: after any sequence of activations of the copy control, a second one while
\* the feedback of the first is displayed included, the label is "Copy" again once
\* every feedback timer has fired
C32_LabelRevertsToCopy ==
    CopyFeedbackOver => copyBtn.label = "Copy"

----------------------------------------------------------------------------
(* Escape and the pending search *)

\* the last search was the one of the Escape listener, and no input event has
\* arrived since
ClearedByEscape == searchRun.by = "escape" /\ searchRun.inputs = inputCount

\* C33: after the search field is cleared with Escape, no query typed before the
\* Escape is executed: until the next input event no debounced search runs and
\* the navigation stays fully visible, even when a debounced search was pending
\* at the moment of the Escape
C33_EscapeDropsPendingQuery ==
    [][(ClearedByEscape /\ inputCount' = inputCount) =>
          /\ searchRun'.by = "escape"
          /\ navHidden' = {} /\ groupHidden' = {}]_vars

\* C34: whenever the most recently executed query is empty (the navigation is fully
\* reset), the "no results" element is not visible, also when the query before it
\* had no matches
C34_BlankQueryHidesEmptyState ==
    LastQueryBlank => emptyState # "block"

----------------------------------------------------------------------------
(* Panels: activations, transitions, gestures *)

\* the state right after a click or a touchend on the control named target, the
\* last user event so far, arrived while the panel was in no transition
Activated(target, animating) ==
    /\ panelOp \in {"click", "touchend"}
    /\ toggleDeb.set /\ toggleDeb.left = ToggleDebounceMs
    /\ toggleDeb.target = target /\ toggleDeb.seq = evCount
    /\ ~animating

\* C35: every click or touch on the mobile-menu toggle, and on the sidebar toggle,
\* made while that panel is in no transition eventually changes the panel's
\* open/closed state, whatever clicks or touches on other elements follow
C35_ToggleActivationTakesEffect ==
    /\ (Activated("mobileMenuToggle", panel.menuIsAnimating) /\ panel.menuIsOpen)
          ~> ~panel.menuIsOpen
    /\ (Activated("mobileMenuToggle", panel.menuIsAnimating) /\ ~panel.menuIsOpen)
          ~> panel.menuIsOpen
    /\ (Activated("mobileSidebarToggle", panel.sidebarIsAnimating) /\ panel.sidebarIsOpen)
          ~> ~panel.sidebarIsOpen
    /\ (Activated("mobileSidebarToggle", panel.sidebarIsAnimating) /\ ~panel.sidebarIsOpen)
          ~> panel.sidebarIsOpen

\* C36: every transition ends: after any toggle() of the mobile menu or of the
\* sidebar, isAnimating becomes false again when the 300 ms timer runs, so no
\* sequence of events leaves a panel unable to toggle for ever
C36_TransitionsEnd ==
    /\ panel.menuIsAnimating ~> ~panel.menuIsAnimating
    /\ panel.sidebarIsAnimating ~> ~panel.sidebarIsAnimating

\* both panels were opened and both transitions have ended
C36_Witness ==
    /\ panelOp \in {"menuAnimationEnd", "sidebarAnimationEnd"}
    /\ panel.menuIsOpen /\ ~panel.menuIsAnimating
    /\ panel.sidebarIsOpen /\ ~panel.sidebarIsAnimating

\* C37: during one touch gesture, from touchstart to touchend, however many
\* touchmove events it has and however long it lasts, the sidebar's open/closed
\* state changes at most once
C37_OneChangePerGesture ==
    panel.gestureChanges <= 1

\* the state right after a click on a navigation entry at a mobile width that found
\* the sidebar open and did not close it at once
NavItemClickedSidebarOpen ==
    /\ panelOp = "click"
    /\ toggleDeb.set /\ toggleDeb.left = ToggleDebounceMs
    /\ toggleDeb.target = "navItem" /\ toggleDeb.seq = evCount
    /\ isMobile(innerWidth)
    /\ panel.sidebarIsOpen

\* C38: at a mobile width, after a click on a navigation entry while the sidebar is
\* open, the sidebar is eventually closed, by the close made at once or by the one
\* made 100 ms later, also when the sidebar was opened less than 300 ms before
C38_NavClickClosesSidebar ==
    NavItemClickedSidebarOpen ~> ~panel.sidebarIsOpen

----------------------------------------------------------------------------
(* Handlers and the loaded document *)

\* loadSection has run: called by init, by the click listener or by the popstate
\* listener
LoadSectionRan == lastOp.op \in {"init", "click", "popstate"} /\ handlersBound

\* C39: loadSection never runs before the document tree is set: the click, popstate
\* and search listeners are bound only after loadDocs has completed, so no user
\* event reaches loadSection or the search filter with a null document
C39_HandlersRunOnLoadedTree ==
    /\ handlersBound => pc = "ready"
    /\ LoadSectionRan => docs.kind # "null"
    /\ searchRun.by # "none" => docs.kind # "null"

====
